---- MODULE Spec2Model ----
(***************************************************************************)
(* Pulsiora: the trigger matcher (pulsiora-core/src/models.rs), the        *)
(* pipeline execution engine (pulsiora-runner/src/executor.rs) and the     *)
(* Pulsefile parser (pulsiora-parser/src/parser.rs).                       *)
(*                                                                         *)
(* Strings that the code inspects character by character (branch names and *)
(* branch patterns) are sequences of one-character strings.  Option<T> is  *)
(* a sequence of length at most one: None is <<>>, Some(x) is <<x>>.       *)
(***************************************************************************)
EXTENDS Integers, Sequences, FiniteSets, TLC

VARIABLES
    pipeline,         \* the &Pipeline argument of execute
    git_event,        \* the &GitEvent argument of execute
    pc,               \* position of the call inside execute
    matched,          \* Option<bool>: value returned by GitTriggers::matches
    step_results,     \* the local Vec<StepResult> of execute
    pipeline_status,  \* the local pipeline_status of execute ("Unset" before it is declared)
    idx,              \* number of steps the for loop has consumed
    proc_log,         \* history: one entry per call of Command::output(), in call order
    ret,              \* Option<Result<PipelineExecution, PulsioraError>>: what execute returned
    input,            \* the &str argument of parse_pulsefile, with the blocks written in it
    parse_result,     \* Option<Result<Pipeline>>: what parse_pulsefile returned
    uuid_count,       \* number of calls of Uuid::new_v4() so far
    execution_id,     \* Option<Uuid>: the local execution_id of execute
    storage,          \* the InMemoryStorage behind AppState.storage
    store_log,        \* history: the arguments of the store_execution calls, in call order
    http,             \* Option<StatusCode>: what handle_github_webhook answered
    others,           \* the locals of the other executions in progress, one record each
    delivery          \* the request handle_github_webhook serves, and its use of the storage lock

vars == <<pipeline, git_event, pc, matched, step_results, pipeline_status, idx, proc_log, ret,
          input, parse_result, uuid_count, execution_id, storage, store_log, http, others, delivery>>

-----------------------------------------------------------------------------
(* Bounds *)

MaxSteps == 2
MaxPatterns == 2
MaxLen == 3
MaxFields == 2
MaxStores == 3
MaxExecutions == 2

-----------------------------------------------------------------------------
(* Option *)

None == <<>>
Some(x) == <<x>>
IsSome(o) == o # <<>>
Unwrap(o) == o[1]

\* The value of input while parse_pulsefile is not being called.
NoInput == [text |-> <<>>, doc |-> None]

-----------------------------------------------------------------------------
(* Data model: pulsiora-core/src/models.rs *)

GitEventType == {"Push", "PullRequest", "Merge", "Tag", "Release", "BranchCreate", "BranchDelete"}

StepStatus == {"Pending", "Running", "Success", "Failed", "Skipped"}

PipelineStatus == {"Pending", "Running", "Success", "Failed", "Cancelled", "Skipped"}

\* Branch names and patterns used as inputs.
Star == <<"*">>
Main == <<"m">>
Feature == <<"f">>
FeatureSlash == <<"f", "/">>
FeatureAbc == <<"f", "/", "a">>
FeatureGlob == <<"f", "/", "*">>

BranchNames == {Main, Feature, FeatureSlash, FeatureAbc}
PatternStrings == {Star, Main, FeatureGlob}
TagNames == {<<"v">>}

\* All sequences over S of length at most n.
SeqsUpTo(S, n) == UNION {[1..k -> S] : k \in 0..n}

\* GitTriggers whose true flags are exactly the kinds in on.
GitTriggersOf(on, branches) ==
    [on_push |-> "Push" \in on,
     on_pull_request |-> "PullRequest" \in on,
     on_merge |-> "Merge" \in on,
     on_tag |-> "Tag" \in on,
     on_release |-> "Release" \in on,
     on_branch_create |-> "BranchCreate" \in on,
     on_branch_delete |-> "BranchDelete" \in on,
     branches |-> branches]

\* The repository of the events used as inputs.
TestRepo == [full_name |-> "test/repo"]

GitEventOf(kind, branch, tag) ==
    [event_type |-> kind, repository |-> TestRepo, branch |-> branch, tag |-> tag]

\* A Step.  Its run text is left out: what the command does when it is run is the
\* outcome chosen in StepSpawnFails and StepExit.
StepOf(name, allow) == [name |-> name, allow_failure |-> allow]

PipelineOf(triggers, steps) ==
    [name |-> "test", version |-> "1.0", triggers |-> [git |-> triggers], steps |-> steps]

-----------------------------------------------------------------------------
(* Storage: pulsiora-server/src/storage.rs.  A HashMap is a function whose    *)
(* domain is the set of its keys.                                              *)

MapInsert(m, k, v) == [x \in DOMAIN m \cup {k} |-> IF x = k THEN v ELSE m[x]]
MapRemove(m, k) == [x \in DOMAIN m \ {k} |-> m[x]]
MapGet(m, k) == IF k \in DOMAIN m THEN Some(m[k]) ELSE None

\* Mutant: every call draws the same identifier.
new_v4_Reused(n) == 1

\* Uuid::new_v4(): the identifier drawn by the n+1-th call.  Random identifiers of
\* 122 bits are taken to be fresh.
new_v4(n) == n + 1

\* The textual forms of a Uuid that Uuid::parse_str reads, and a text that is none.
Hyphenated(uuid) == <<"hyphenated", uuid>>
Simple(uuid) == <<"simple", uuid>>
NotAUuid == <<"not-a-uuid">>

\* Uuid::parse_str(id).ok()
Uuid_parse_str(id) == IF Len(id) = 2 THEN Some(id[2]) ELSE None

\* InMemoryStorage::new()
InMemoryStorage_new ==
    [executions |-> <<>>, registered_repos |-> <<>>, executions_by_repo |-> <<>>]

store_execution(self, execution) ==
    LET repo_id == execution.repository.full_name
        ids == IF repo_id \in DOMAIN self.executions_by_repo
               THEN self.executions_by_repo[repo_id] ELSE <<>>
    IN [self EXCEPT !.executions = MapInsert(@, execution.id, execution),
                    !.executions_by_repo = MapInsert(@, repo_id, Append(ids, execution.id))]

get_execution(self, id) ==
    LET uuid == Uuid_parse_str(id)
    IN IF uuid = None THEN None ELSE MapGet(self.executions, Unwrap(uuid))

\* list_executions: the vectors that collecting self.executions.values() can give;
\* the order in which a HashMap is iterated is not determined.
list_executions(self) ==
    LET keys == DOMAIN self.executions
        n == Cardinality(keys)
        orders == {o \in [1..n -> keys] : \A i, j \in 1..n : o[i] = o[j] => i = j}
    IN {[i \in 1..n |-> self.executions[o[i]]] : o \in orders}

\* executions.sort_by(|a, b| b.started_at.cmp(&a.started_at)): a stable sort, done
\* here by inserting each element behind those that do not start earlier than it.
RECURSIVE sort_by_started_at(_)
sort_by_started_at(executions) ==
    IF executions = <<>> THEN <<>>
    ELSE LET n == Len(executions)
             x == executions[n]
             sorted == sort_by_started_at(SubSeq(executions, 1, n - 1))
             k == Cardinality({i \in 1..Len(sorted) : sorted[i].started_at >= x.started_at})
         IN SubSeq(sorted, 1, k) \o <<x>> \o SubSeq(sorted, k + 1, Len(sorted))

\* ids.iter().filter_map(|id| self.executions.get(id).cloned()).collect()
RECURSIVE filter_map_get(_, _)
filter_map_get(self, ids) ==
    IF ids = <<>> THEN <<>>
    ELSE MapGet(self.executions, Head(ids)) \o filter_map_get(self, Tail(ids))

\* .take(limit)
take(s, n) == SubSeq(s, 1, IF n < Len(s) THEN n ELSE Len(s))

\* Mutant: the executions are returned in the order in which they were stored.
get_executions_by_repo_Unsorted(self, repo_identifier, limit) ==
    LET ids == IF repo_identifier \in DOMAIN self.executions_by_repo
               THEN self.executions_by_repo[repo_identifier] ELSE <<>>
        executions == filter_map_get(self, ids)
    IN take(executions, limit)

get_executions_by_repo(self, repo_identifier, limit) ==
    LET ids == IF repo_identifier \in DOMAIN self.executions_by_repo
               THEN self.executions_by_repo[repo_identifier] ELSE <<>>
        executions == sort_by_started_at(filter_map_get(self, ids))
    IN take(executions, limit)

register_repo(self, repo) ==
    [self EXCEPT !.registered_repos = MapInsert(@, repo.repo_identifier, repo)]

\* Mutant: unregistering a repository also drops the executions of that repository.
unregister_repo_DropsExecutions(self, repo_identifier) ==
    [self EXCEPT !.registered_repos = MapRemove(@, repo_identifier),
                 !.executions = [x \in {k \in DOMAIN @ : @[k].repository.full_name # repo_identifier}
                                    |-> @[x]]]

\* unregister_repo: the storage it leaves (its value is unregister_repo_value).
unregister_repo(self, repo_identifier) ==
    [self EXCEPT !.registered_repos = MapRemove(@, repo_identifier)]

unregister_repo_value(self, repo_identifier) == repo_identifier \in DOMAIN self.registered_repos

get_repo_pulsefile(self, repo_identifier) ==
    IF repo_identifier \in DOMAIN self.registered_repos
    THEN Some(self.registered_repos[repo_identifier].pulsefile)
    ELSE None

is_repo_registered(self, repo_identifier) == repo_identifier \in DOMAIN self.registered_repos

\* Handlers of pulsiora-server/src/main.rs that only consult or change the storage.

\* unregister_repo (the handler): the storage it leaves and the status it answers.
unregister_repo_handler(self, repo) ==
    [storage |-> unregister_repo(self, repo),
     status |-> IF unregister_repo_value(self, repo) THEN "NO_CONTENT" ELSE "NOT_FOUND"]

\* params.get("limit").and_then(|s| s.parse().ok()).unwrap_or(10)
DefaultLimit == 10
limit_of(param) == IF param = None THEN DefaultLimit ELSE Unwrap(param)

get_pipeline_status(self, repo, param) ==
    LET executions == get_executions_by_repo(self, repo, limit_of(param))
    IN IF executions = <<>> /\ ~is_repo_registered(self, repo)
       THEN [tag |-> "Err", error |-> "NOT_FOUND"]
       ELSE [tag |-> "Ok", value |-> executions]

\* The request of a specification that serves no webhook delivery.
NoDelivery ==
    [event_type |-> "unknown", payload |-> [repository |-> None, ref_field |-> None],
     held |-> "none", reads |-> 0, writes |-> 0]

\* The values of the variables that a specification does not use.
NoExecutionId == uuid_count = 0 /\ execution_id = None
NoServer ==
    /\ storage = InMemoryStorage_new /\ store_log = <<>> /\ http = None /\ others = <<>>
    /\ delivery = NoDelivery

-----------------------------------------------------------------------------
(* Trigger matcher: GitTriggers::matches, GitTriggers::matches_branch *)

StartsWith(s, prefix) ==
    /\ Len(prefix) <= Len(s)
    /\ SubSeq(s, 1, Len(prefix)) = prefix

EndsWith(s, suffix) ==
    /\ Len(suffix) <= Len(s)
    /\ SubSeq(s, Len(s) - Len(suffix) + 1, Len(s)) = suffix

\* Mutant: every pattern is compared as a prefix of the branch.
PatternMatches_PrefixForAll(pattern, branch) ==
    IF pattern = Star THEN TRUE
    ELSE IF StartsWith(branch, pattern) THEN TRUE
    ELSE IF EndsWith(pattern, <<"/", "*">>)
         THEN StartsWith(branch, SubSeq(pattern, 1, Len(pattern) - 2))
         ELSE FALSE

\* The closure given to any() in matches_branch.
PatternMatches(pattern, branch) ==
    IF pattern = Star THEN TRUE
    ELSE IF pattern = branch THEN TRUE
    ELSE IF EndsWith(pattern, <<"/", "*">>)
         THEN StartsWith(branch, SubSeq(pattern, 1, Len(pattern) - 2))
         ELSE FALSE

\* Mutant: only the first pattern of the list is looked at.
matches_branch_FirstOnly(self, branch) ==
    IF self.branches = <<>> THEN FALSE
    ELSE PatternMatches(self.branches[1], branch)

matches_branch(self, branch) ==
    IF self.branches = <<>> THEN FALSE
    ELSE \E i \in 1..Len(self.branches) : PatternMatches(self.branches[i], branch)

\* The match on event.event_type at the head of matches.
event_matches(self, event_type) ==
    CASE event_type = "Push" -> self.on_push
      [] event_type = "PullRequest" -> self.on_pull_request
      [] event_type = "Merge" -> self.on_merge
      [] event_type = "Tag" -> self.on_tag
      [] event_type = "Release" -> self.on_release
      [] event_type = "BranchCreate" -> self.on_branch_create
      [] event_type = "BranchDelete" -> self.on_branch_delete

\* Mutant: the tag is consulted before the branch.
matches_TagFirst(self, event) ==
    IF ~event_matches(self, event.event_type) THEN FALSE
    ELSE IF IsSome(event.tag) THEN self.on_tag
    ELSE IF IsSome(event.branch) THEN matches_branch(self, Unwrap(event.branch))
    ELSE TRUE

\* Mutant: the event-kind gate is applied only to events without a branch.
matches_NoKindGate(self, event) ==
    IF IsSome(event.branch) THEN matches_branch(self, Unwrap(event.branch))
    ELSE IF ~event_matches(self, event.event_type) THEN FALSE
    ELSE IF IsSome(event.tag) THEN self.on_tag
    ELSE TRUE

\* Mutant: an event with a tag and no branch always matches.
matches_TagAlwaysTrue(self, event) ==
    IF ~event_matches(self, event.event_type) THEN FALSE
    ELSE IF IsSome(event.branch) THEN matches_branch(self, Unwrap(event.branch))
    ELSE TRUE

matches(self, event) ==
    IF ~event_matches(self, event.event_type) THEN FALSE
    ELSE IF IsSome(event.branch) THEN matches_branch(self, Unwrap(event.branch))
    ELSE IF IsSome(event.tag) THEN self.on_tag
    ELSE TRUE

-----------------------------------------------------------------------------
(* Step executor: PipelineExecutor::execute_step *)

\* What one call of Command::output() can produce.  "SpawnError" is Err(e): the
\* process was never started.  The others are Ok(output) of a process that ran and
\* terminated: exit code 0, exit code 1, or killed by a signal (no exit code).
\* "Running" marks a started process whose output() has not returned yet.
SpawnError == "SpawnError"
ExitOutcomes == {"Exit0", "Exit1", "Signal"}

\* output.status.code()
code(outcome) ==
    CASE outcome = "Exit0" -> Some(0)
      [] outcome = "Exit1" -> Some(1)
      [] outcome = "Signal" -> None

\* output.status.success()
success(outcome) == code(outcome) = Some(0)

Now == 1

\* Mutant: the result of a terminated process carries no completion time.
StepResultOk_NoCompletion(step, outcome) ==
    [step_name |-> step.name,
     status |-> IF success(outcome) THEN "Success" ELSE "Failed",
     stderr |-> "",
     exit_code |-> code(outcome),
     completed_at |-> None]

\* Mutant: a process that was started and terminated counts as a success.
StepResultOk_AlwaysSuccess(step, outcome) ==
    [step_name |-> step.name,
     status |-> "Success",
     stderr |-> "",
     exit_code |-> code(outcome),
     completed_at |-> Some(Now)]

\* The Ok(output) arm of execute_step.
StepResultOk(step, outcome) ==
    [step_name |-> step.name,
     status |-> IF success(outcome) THEN "Success" ELSE "Failed",
     stderr |-> "",
     exit_code |-> code(outcome),
     completed_at |-> Some(Now)]

\* Mutant: a step whose process could not be started is recorded as Skipped.
StepResultErr_Skipped(step) ==
    [step_name |-> step.name,
     status |-> "Skipped",
     stderr |-> "Failed to execute command",
     exit_code |-> None,
     completed_at |-> Some(Now)]

\* The Err(e) arm of execute_step.
StepResultErr(step) ==
    [step_name |-> step.name,
     status |-> "Failed",
     stderr |-> "Failed to execute command",
     exit_code |-> None,
     completed_at |-> Some(Now)]

-----------------------------------------------------------------------------
(* Execution engine: PipelineExecutor::execute *)

\* Mutant: the negation of the trigger check is lost.
ShouldSkip_Inverted(p, event) == matches(p.triggers.git, event)

\* The condition of the early return: !pipeline.triggers.git.matches(git_event)
ShouldSkip(p, event) == ~matches(p.triggers.git, event)

\* The record of the early return.
SkippedExecution(id, p, event) ==
    [id |-> id,
     pipeline_name |-> p.name,
     pipeline_version |-> p.version,
     repository |-> event.repository,
     git_event |-> event,
     status |-> "Skipped",
     step_results |-> <<>>,
     started_at |-> Now,
     completed_at |-> Some(Now)]

\* Mutant: the steps are taken from the back of the vector.
CurrentStep_Reversed(p, i) == p.steps[Len(p.steps) - i]

\* The step that `for step in &pipeline.steps` yields after i steps were consumed.
CurrentStep(p, i) == p.steps[i + 1]

\* Mutant: allow_failure is ignored, every failure stops the pipeline.
StopsPipeline_IgnoresAllow(step, step_result) == step_result.status = "Failed"

\* Mutant: the loop never breaks.
StopsPipeline_Never(step, step_result) == FALSE

\* The condition of the break: step_result.status == Failed && !step.allow_failure
StopsPipeline(step, step_result) ==
    step_result.status = "Failed" /\ ~step.allow_failure

\* Mutant: a loop that ran to its end always gives Success.
FinalStatus_AlwaysSuccess(status, results) ==
    IF status = "Running" THEN "Success" ELSE status

\* Mutant: a pipeline that recorded no step result is reported as Skipped.
FinalStatus_EmptyIsSkipped(status, results) ==
    IF status = "Running"
    THEN IF results = <<>> THEN "Skipped"
         ELSE IF \E i \in 1..Len(results) : results[i].status = "Failed"
              THEN "Failed"
              ELSE "Success"
    ELSE status

\* Mutant: the final status is left as it is when no step failed.
FinalStatus_KeepsRunning(status, results) ==
    IF status = "Running"
    THEN IF \E i \in 1..Len(results) : results[i].status = "Failed"
         THEN "Failed"
         ELSE "Running"
    ELSE status

\* "Determine final status"
FinalStatus(status, results) ==
    IF status = "Running"
    THEN IF \E i \in 1..Len(results) : results[i].status = "Failed"
         THEN "Failed"
         ELSE "Success"
    ELSE status

\* The record of the final return.
CompletedExecution(id, p, event, status, results) ==
    [id |-> id,
     pipeline_name |-> p.name,
     pipeline_version |-> p.version,
     repository |-> event.repository,
     git_event |-> event,
     status |-> status,
     step_results |-> results,
     started_at |-> Now,
     completed_at |-> Some(Now)]

\* Mutant: a failed pipeline is reported as an error.
ReturnOk_ErrOnFailed(execution) ==
    IF execution.status = "Failed"
    THEN [tag |-> "Err", error |-> "ExecutionError"]
    ELSE [tag |-> "Ok", value |-> execution]

\* Ok(PipelineExecution { .. })
ReturnOk(execution) == [tag |-> "Ok", value |-> execution]

\* Inputs of the engine.
StepNames == {"build", "test"}
Steps == {StepOf(n, a) : n \in StepNames, a \in BOOLEAN}
EngineTriggers ==
    {GitTriggersOf(on, bl) :
        on \in {{}, {"Push"}, {"Push", "Tag"}},
        bl \in {<<>>, <<Star>>, <<Main>>, <<FeatureGlob, Main>>}}
EngineEvents ==
    {GitEventOf(k, b, t) :
        k \in {"Push", "PullRequest", "Tag"},
        b \in {None, Some(Main), Some(FeatureAbc)},
        t \in {None} \cup {Some(x) : x \in TagNames}}

Init ==
    /\ pipeline \in {PipelineOf(t, s) : t \in EngineTriggers, s \in SeqsUpTo(Steps, MaxSteps)}
    /\ git_event \in EngineEvents
    /\ pc = "start"
    /\ matched = None
    /\ step_results = <<>>
    /\ pipeline_status = "Unset"
    /\ idx = 0
    /\ proc_log = <<>>
    /\ ret = None
    /\ input = NoInput
    /\ parse_result = None
    /\ NoExecutionId
    /\ NoServer

\* execute, from its entry to the for loop: the trigger check and the early return.
CheckTrigger ==
    /\ pc = "start"
    /\ uuid_count' = uuid_count + 1
    /\ execution_id' = Some(new_v4(uuid_count))
    /\ matched' = Some(matches(pipeline.triggers.git, git_event))
    /\ IF ShouldSkip(pipeline, git_event)
       THEN /\ ret' = Some(ReturnOk(SkippedExecution(Unwrap(execution_id'), pipeline, git_event)))
            /\ pc' = "done"
            /\ UNCHANGED <<step_results, pipeline_status>>
       ELSE /\ step_results' = <<>>
            /\ pipeline_status' = "Running"
            /\ pc' = "loop"
            /\ UNCHANGED ret
    /\ UNCHANGED <<pipeline, git_event, idx, proc_log,
                   input, parse_result, storage, store_log, http, others, delivery>>

\* Mutant: the loop goes on to the next step after a failure that is not allowed.
LoopBody_RunsOn(step, step_result) ==
    /\ step_results' = Append(step_results, step_result)
    /\ idx' = idx + 1
    /\ pc' = "loop"
    /\ pipeline_status' = IF StopsPipeline(step, step_result) THEN "Failed" ELSE pipeline_status

\* Mutant: a step whose failure is allowed is run again.
LoopBody_RetryAllowedFailure(step, step_result) ==
    /\ step_results' = Append(step_results, step_result)
    /\ IF StopsPipeline(step, step_result)
       THEN /\ pipeline_status' = "Failed"
            /\ pc' = "break"
            /\ UNCHANGED idx
       ELSE /\ idx' = IF step_result.status = "Failed" THEN idx ELSE idx + 1
            /\ pc' = "loop"
            /\ UNCHANGED pipeline_status

\* The body of the for loop after execute_step has returned step_result.
LoopBody(step, step_result) ==
    /\ step_results' = Append(step_results, step_result)
    /\ IF StopsPipeline(step, step_result)
       THEN /\ pipeline_status' = "Failed"
            /\ pc' = "break"
            /\ UNCHANGED idx
       ELSE /\ idx' = idx + 1
            /\ pc' = "loop"
            /\ UNCHANGED pipeline_status

\* One iteration whose Command::output() fails to start the process.
StepSpawnFails ==
    /\ pc = "loop"
    /\ idx < Len(pipeline.steps)
    /\ proc_log' = Append(proc_log, [step |-> idx + 1, outcome |-> SpawnError])
    /\ LoopBody(CurrentStep(pipeline, idx), StepResultErr(CurrentStep(pipeline, idx)))
    /\ UNCHANGED <<pipeline, git_event, matched, ret,
                   input, parse_result, uuid_count, execution_id, storage, store_log,
                   http, others, delivery>>

\* Mutant: the process of the next step is started while the last one still runs.
StepSpawn_Overlapping ==
    /\ pc \in {"loop", "waiting"}
    /\ Len(proc_log) < Len(pipeline.steps)
    /\ proc_log' = Append(proc_log, [step |-> Len(proc_log) + 1, outcome |-> "Running"])
    /\ pc' = "waiting"
    /\ UNCHANGED <<pipeline, git_event, matched, step_results, pipeline_status, idx, ret,
                   input, parse_result, uuid_count, execution_id, storage, store_log,
                   http, others, delivery>>

\* One iteration up to the point where the process runs and output() waits for it.
StepSpawn ==
    /\ pc = "loop"
    /\ idx < Len(pipeline.steps)
    /\ proc_log' = Append(proc_log, [step |-> idx + 1, outcome |-> "Running"])
    /\ pc' = "waiting"
    /\ UNCHANGED <<pipeline, git_event, matched, step_results, pipeline_status, idx, ret,
                   input, parse_result, uuid_count, execution_id, storage, store_log,
                   http, others, delivery>>

\* The process terminates, output() returns and the iteration completes.
StepExit ==
    /\ pc = "waiting"
    /\ \E outcome \in ExitOutcomes :
        /\ proc_log' = [proc_log EXCEPT ![Len(proc_log)].outcome = outcome]
        /\ LoopBody(CurrentStep(pipeline, idx), StepResultOk(CurrentStep(pipeline, idx), outcome))
    /\ UNCHANGED <<pipeline, git_event, matched, ret,
                   input, parse_result, uuid_count, execution_id, storage, store_log,
                   http, others, delivery>>

\* Mutant: execute returns only when the loop was left by break.
Finalize_OnlyAfterBreak ==
    /\ pc = "break"
    /\ pipeline_status' = FinalStatus(pipeline_status, step_results)
    /\ ret' = Some(ReturnOk(CompletedExecution(Unwrap(execution_id), pipeline, git_event,
                                            pipeline_status', step_results)))
    /\ pc' = "done"
    /\ UNCHANGED <<pipeline, git_event, matched, step_results, idx, proc_log,
                   input, parse_result, uuid_count, execution_id, storage, store_log,
                   http, others, delivery>>

\* After the loop: the final status and the return.
Finalize ==
    /\ \/ pc = "break"
       \/ pc = "loop" /\ idx = Len(pipeline.steps)
    /\ pipeline_status' = FinalStatus(pipeline_status, step_results)
    /\ ret' = Some(ReturnOk(CompletedExecution(Unwrap(execution_id), pipeline, git_event,
                                            pipeline_status', step_results)))
    /\ pc' = "done"
    /\ UNCHANGED <<pipeline, git_event, matched, step_results, idx, proc_log,
                   input, parse_result, uuid_count, execution_id, storage, store_log,
                   http, others, delivery>>

Next ==
    \/ CheckTrigger
    \/ StepSpawnFails
    \/ StepSpawn
    \/ StepExit
    \/ Finalize

Spec == Init /\ [][Next]_vars

\* The engine with its own steps always taken: execute is a future that is polled
\* until it is ready, and everything it does between two calls of output() is
\* straight-line code.  Nothing is assumed about StepExit: whether a process that
\* was started terminates is up to the process.
SpecLive ==
    /\ Init
    /\ [][Next]_vars
    /\ WF_vars(CheckTrigger)
    /\ WF_vars(StepSpawn \/ StepSpawnFails)
    /\ WF_vars(Finalize)

-----------------------------------------------------------------------------
(* The trigger matcher alone, over every combination of the seven flags *)

AllGitTriggers ==
    {GitTriggersOf(on, bl) :
        on \in SUBSET GitEventType,
        bl \in SeqsUpTo(PatternStrings, MaxPatterns)}
AllGitEvents ==
    {GitEventOf(k, b, t) :
        k \in GitEventType,
        b \in {None} \cup {Some(x) : x \in BranchNames},
        t \in {None} \cup {Some(x) : x \in TagNames}}

MatchInit ==
    /\ pipeline \in {PipelineOf(t, <<>>) : t \in AllGitTriggers}
    /\ git_event \in AllGitEvents
    /\ pc = "start"
    /\ matched = None
    /\ step_results = <<>>
    /\ pipeline_status = "Unset"
    /\ idx = 0
    /\ proc_log = <<>>
    /\ ret = None
    /\ input = NoInput
    /\ parse_result = None
    /\ NoExecutionId
    /\ NoServer

\* One call of pipeline.triggers.git.matches(git_event).
MatchesCall ==
    /\ matched = None
    /\ matched' = Some(matches(pipeline.triggers.git, git_event))
    /\ UNCHANGED <<pipeline, git_event, pc, step_results, pipeline_status, idx, proc_log, ret,
                   input, parse_result, uuid_count, execution_id, storage, store_log,
                   http, others, delivery>>

MatchNext == MatchesCall

SpecMatch == MatchInit /\ [][MatchNext]_vars

-----------------------------------------------------------------------------
(* Branch-pattern matching alone, over every short string *)

Chars == {"f", "m", "/", "*"}
Strings == SeqsUpTo(Chars, MaxLen)

\* Pattern lists: none, one arbitrary pattern, or one arbitrary pattern before or
\* after one of the named patterns.
BranchPatternLists ==
    {<<>>}
    \cup {<<p>> : p \in Strings}
    \cup {<<p, q>> : p \in Strings, q \in PatternStrings}
    \cup {<<q, p>> : p \in Strings, q \in PatternStrings}

BranchInit ==
    /\ pipeline \in {PipelineOf(GitTriggersOf({}, bl), <<>>) : bl \in BranchPatternLists}
    /\ git_event \in {GitEventOf("Push", Some(b), None) : b \in Strings}
    /\ pc = "start"
    /\ matched = None
    /\ step_results = <<>>
    /\ pipeline_status = "Unset"
    /\ idx = 0
    /\ proc_log = <<>>
    /\ ret = None
    /\ input = NoInput
    /\ parse_result = None
    /\ NoExecutionId
    /\ NoServer

\* One call of pipeline.triggers.git.matches_branch(branch); matched holds its result.
MatchesBranchCall ==
    /\ matched = None
    /\ matched' = Some(matches_branch(pipeline.triggers.git, Unwrap(git_event.branch)))
    /\ UNCHANGED <<pipeline, git_event, pc, step_results, pipeline_status, idx, proc_log, ret,
                   input, parse_result, uuid_count, execution_id, storage, store_log,
                   http, others, delivery>>

BranchNext == MatchesBranchCall

SpecBranch == BranchInit /\ [][BranchNext]_vars

-----------------------------------------------------------------------------
(* Text: the str operations that pulsiora-parser/src/parser.rs uses.  A text is a  *)
(* sequence of one-character strings; offsets are byte offsets from 0, as in Rust. *)

Min(S) == CHOOSE x \in S : \A y \in S : x <= y
Max(S) == CHOOSE x \in S : \A y \in S : x >= y

\* str::find: the offset of the first occurrence of pat in text, if any.
Find(text, pat) ==
    LET occ == {i \in 0..(Len(text) - Len(pat)) : SubSeq(text, i + 1, i + Len(pat)) = pat}
    IN IF occ = {} THEN None ELSE Some(Min(occ))

\* &text[a..b] and &text[a..]
Slice(text, a, b) == SubSeq(text, a + 1, b)
SliceFrom(text, a) == SubSeq(text, a + 1, Len(text))

\* text with the longest prefix and suffix of characters from cs removed.
TrimChars(text, cs) ==
    LET keep == {i \in 1..Len(text) : text[i] \notin cs}
    IN IF keep = {} THEN <<>> ELSE SubSeq(text, Min(keep), Max(keep))

Whitespace == {" ", "\n", "\t"}

\* str::trim
Trim(text) == TrimChars(text, Whitespace)

\* str::trim_matches('"')
TrimMatchesQuote(text) == TrimChars(text, {"\""})

\* str::strip_prefix and str::strip_suffix, as Option
StripPrefix(text, p) == IF StartsWith(text, p) THEN Some(SliceFrom(text, Len(p))) ELSE None
StripSuffix(text, p) == IF EndsWith(text, p) THEN Some(SubSeq(text, 1, Len(text) - Len(p))) ELSE None

\* Option::unwrap_or
UnwrapOr(o, d) == IF IsSome(o) THEN Unwrap(o) ELSE d

\* The texts the parser compares with, and the literal false.
Str ==
    [true |-> <<"t", "r", "u", "e">>,
     false |-> <<"f", "a", "l", "s", "e">>,
     name |-> <<"n", "a", "m", "e">>,
     version |-> <<"v", "e", "r", "s", "i", "o", "n">>,
     default |-> <<"d", "e", "f", "a", "u", "l", "t">>,
     v1_0 |-> <<"1", ".", "0">>,
     on_push |-> <<"o", "n", "_", "p", "u", "s", "h">>,
     on_pull_request |-> <<"o", "n", "_", "p", "u", "l", "l", "_", "r", "e", "q", "u", "e", "s", "t">>,
     on_merge |-> <<"o", "n", "_", "m", "e", "r", "g", "e">>,
     on_tag |-> <<"o", "n", "_", "t", "a", "g">>,
     on_release |-> <<"o", "n", "_", "r", "e", "l", "e", "a", "s", "e">>,
     on_branch_create |-> <<"o", "n", "_", "b", "r", "a", "n", "c", "h", "_", "c", "r", "e", "a", "t", "e">>,
     on_branch_delete |-> <<"o", "n", "_", "b", "r", "a", "n", "c", "h", "_", "d", "e", "l", "e", "t", "e">>]

TripleQuote == <<"\"", "\"", "\"">>

-----------------------------------------------------------------------------
(* Parser: pulsiora-parser/src/parser.rs.  A pest Pair is a record              *)
(* [rule, text, inner]: its rule, its as_str() and its into_inner() pairs.      *)

unquote_string(s) == TrimMatchesQuote(s)

unquote_multiline_string(s) ==
    Trim(UnwrapOr(StripSuffix(UnwrapOr(StripPrefix(Trim(s), TripleQuote), s), TripleQuote), s))

parse_boolean_field(text, field_name) ==
    LET start == Find(text, field_name \o <<":">>)
    IN IF IsSome(start)
       THEN LET end == Find(SliceFrom(text, Unwrap(start)), <<";">>)
            IN IF IsSome(end)
               THEN Trim(Slice(text, Unwrap(start) + Len(field_name) + 1,
                               Unwrap(start) + Unwrap(end))) = Str.true
               ELSE FALSE
       ELSE FALSE

\* One of the two "Extract ... field" blocks of parse_pipeline_metadata: key is
\* "name:" or "version:".  The result is the empty text when nothing is extracted.
ExtractField(text, key) ==
    LET start == Find(text, key)
    IN IF ~IsSome(start) THEN <<>>
       ELSE LET end == Find(SliceFrom(text, Unwrap(start)), <<";">>)
            IN IF ~IsSome(end) THEN <<>>
               ELSE LET value_str == Slice(text, Unwrap(start) + Len(key), Unwrap(start) + Unwrap(end))
                        quote_start == Find(value_str, <<"\"">>)
                    IN IF ~IsSome(quote_start) THEN <<>>
                       ELSE LET quote_end == Find(SliceFrom(value_str, Unwrap(quote_start) + 1), <<"\"">>)
                            IN IF ~IsSome(quote_end) THEN <<>>
                               ELSE unquote_string(Slice(value_str, Unwrap(quote_start),
                                        Unwrap(quote_start) + Unwrap(quote_end) + 2))

\* Returns <<name, version>>.
parse_pipeline_metadata(pair) ==
    <<ExtractField(pair.text, Str.name \o <<":">>), ExtractField(pair.text, Str.version \o <<":">>)>>

\* The inner pairs of pair that have the given rule, in order.
InnerOf(pair, rule) == SelectSeq(pair.inner, LAMBDA p : p.rule = rule)

parse_branch_list(pair) ==
    LET lits == InnerOf(pair, "string_literal")
    IN [i \in 1..Len(lits) |-> unquote_string(lits[i].text)]

\* Mutant: the default branch list is empty.
GitTriggers_default_NoBranches ==
    [on_push |-> FALSE, on_pull_request |-> FALSE, on_merge |-> FALSE, on_tag |-> FALSE,
     on_release |-> FALSE, on_branch_create |-> FALSE, on_branch_delete |-> FALSE,
     branches |-> <<>>]

\* GitTriggers::default()
GitTriggers_default ==
    [on_push |-> FALSE, on_pull_request |-> FALSE, on_merge |-> FALSE, on_tag |-> FALSE,
     on_release |-> FALSE, on_branch_create |-> FALSE, on_branch_delete |-> FALSE,
     branches |-> <<Star>>]

parse_git_triggers(pair) ==
    LET lists == InnerOf(pair, "branch_list")
    IN [on_push |-> parse_boolean_field(pair.text, Str.on_push),
        on_pull_request |-> parse_boolean_field(pair.text, Str.on_pull_request),
        on_merge |-> parse_boolean_field(pair.text, Str.on_merge),
        on_tag |-> parse_boolean_field(pair.text, Str.on_tag),
        on_release |-> parse_boolean_field(pair.text, Str.on_release),
        on_branch_create |-> parse_boolean_field(pair.text, Str.on_branch_create),
        on_branch_delete |-> parse_boolean_field(pair.text, Str.on_branch_delete),
        branches |-> IF lists = <<>> THEN GitTriggers_default.branches
                     ELSE parse_branch_list(lists[Len(lists)])]

parse_triggers(pair) ==
    LET gits == InnerOf(pair, "git")
    IN [git |-> IF gits = <<>> THEN GitTriggers_default
                ELSE parse_git_triggers(gits[Len(gits)])]

\* The loop of parse_step over the inner pairs, from pair i on, with the values
\* of the three locals so far.
RECURSIVE parse_step_loop(_, _, _, _, _)
parse_step_loop(inner, i, name, run, allow_failure) ==
    IF i > Len(inner) THEN [name |-> name, run |-> Trim(run), allow_failure |-> allow_failure]
    ELSE CASE inner[i].rule = "string_literal" ->
                parse_step_loop(inner, i + 1,
                    IF name = <<>> THEN unquote_string(inner[i].text) ELSE name,
                    run, allow_failure)
           [] inner[i].rule = "multiline_string" ->
                parse_step_loop(inner, i + 1, name,
                    unquote_multiline_string(inner[i].text), allow_failure)
           [] inner[i].rule = "boolean" ->
                parse_step_loop(inner, i + 1, name, run, inner[i].text = Str.true)
           [] OTHER -> parse_step_loop(inner, i + 1, name, run, allow_failure)

parse_step(pair) == parse_step_loop(pair.inner, 1, <<>>, <<>>, FALSE)

\* Mutant: the steps are collected in reverse order.
parse_steps_Reversed(pair) ==
    LET ps == InnerOf(pair, "step")
    IN [i \in 1..Len(ps) |-> parse_step(ps[Len(ps) + 1 - i])]

parse_steps(pair) ==
    LET ps == InnerOf(pair, "step")
    IN [i \in 1..Len(ps) |-> parse_step(ps[i])]

\* The loop of parse_pipeline over the inner pairs: acc holds the locals name,
\* version, triggers and steps.
RECURSIVE parse_pipeline_loop(_, _, _)
parse_pipeline_loop(inner, i, acc) ==
    IF i > Len(inner) THEN acc
    ELSE CASE inner[i].rule = "pipeline_metadata" ->
                LET parsed == parse_pipeline_metadata(inner[i])
                IN parse_pipeline_loop(inner, i + 1,
                        [acc EXCEPT !.name = IF parsed[1] # <<>> THEN parsed[1] ELSE @,
                                    !.version = IF parsed[2] # <<>> THEN parsed[2] ELSE @])
           [] inner[i].rule = "triggers" ->
                parse_pipeline_loop(inner, i + 1,
                        [acc EXCEPT !.triggers = Some(parse_triggers(inner[i]))])
           [] inner[i].rule = "steps" ->
                parse_pipeline_loop(inner, i + 1, [acc EXCEPT !.steps = parse_steps(inner[i])])
           [] OTHER -> parse_pipeline_loop(inner, i + 1, acc)

parse_pipeline(pair) ==
    LET acc == parse_pipeline_loop(pair.inner, 1,
                    [name |-> <<>>, version |-> <<>>, triggers |-> None, steps |-> <<>>])
    IN [tag |-> "Ok",
        value |-> [name |-> IF acc.name = <<>> THEN Str.default ELSE acc.name,
                   version |-> IF acc.version = <<>> THEN Str.v1_0 ELSE acc.version,
                   triggers |-> UnwrapOr(acc.triggers, [git |-> GitTriggers_default]),
                   steps |-> acc.steps]]

-----------------------------------------------------------------------------
(* Pulsefile grammar: the text format                                           *)
(*   file        := "pipeline" "{" [metadata] [triggers] [steps] "}"            *)
(*   metadata    := ["name:" string ";"] ["version:" string ";"]                *)
(*   triggers    := "triggers" "{" "git" "{" {bool_field ";"} [branch_list] "}" "}" *)
(*   bool_field  := identifier ":" ("true"|"false")                             *)
(*   branch_list := "branches:" "[" string {"," string} "]" ";"                 *)
(*   steps       := "steps" "{" {step} "}"                                      *)
(*   step        := "step" string "{" "run:" multiline_string ";"               *)
(*                  ["allow_failure:" bool ";"] "}"                             *)
(* with unknown fields allowed inside a block.  A document is the blocks of a   *)
(* file: [unknown, name, version, triggers, steps].  Tokens are written with    *)
(* one space between them.                                                      *)

\* The keywords of the text format.
Kw ==
    [pipeline |-> <<"p", "i", "p", "e", "l", "i", "n", "e">>,
     triggers |-> <<"t", "r", "i", "g", "g", "e", "r", "s">>,
     git |-> <<"g", "i", "t">>,
     steps |-> <<"s", "t", "e", "p", "s">>,
     step |-> <<"s", "t", "e", "p">>,
     run |-> <<"r", "u", "n">>,
     allow_failure |-> <<"a", "l", "l", "o", "w", "_", "f", "a", "i", "l", "u", "r", "e">>,
     branches |-> <<"b", "r", "a", "n", "c", "h", "e", "s">>]

\* The concatenation of the texts of seq, each preceded by one space.
RECURSIVE Spaced(_)
Spaced(seq) == IF seq = <<>> THEN <<>> ELSE <<" ">> \o Head(seq) \o Spaced(Tail(seq))

\* The concatenation of the texts of seq, separated by ", ".
RECURSIVE CommaSeparated(_)
CommaSeparated(seq) ==
    IF seq = <<>> THEN <<>>
    ELSE IF Len(seq) = 1 THEN Head(seq)
    ELSE Head(seq) \o <<",", " ">> \o CommaSeparated(Tail(seq))

StringLiteral(chars) == <<"\"">> \o chars \o <<"\"">>
MultilineString(chars) == TripleQuote \o chars \o TripleQuote
BoolLiteral(b) == IF b THEN Str.true ELSE Str.false
FieldText(key, value) == key \o <<":", " ">> \o value \o <<";">>

\* metadata, with the unknown field (if any) written first
MetadataFields(doc) ==
    (IF IsSome(doc.unknown) THEN <<FieldText(Unwrap(doc.unknown).key, StringLiteral(Unwrap(doc.unknown).value))>> ELSE <<>>)
    \o (IF IsSome(doc.name) THEN <<FieldText(Str.name, StringLiteral(Unwrap(doc.name)))>> ELSE <<>>)
    \o (IF IsSome(doc.version) THEN <<FieldText(Str.version, StringLiteral(Unwrap(doc.version)))>> ELSE <<>>)

MetadataText(doc) == SliceFrom(Spaced(MetadataFields(doc)), 1)

BranchListText(branches) ==
    FieldText(Kw.branches,
              <<"[">> \o CommaSeparated([i \in 1..Len(branches) |-> StringLiteral(branches[i])]) \o <<"]">>)

GitText(git) ==
    Kw.git \o <<" ", "{">>
    \o Spaced([i \in 1..Len(git.fields) |-> FieldText(git.fields[i].key, BoolLiteral(git.fields[i].value))])
    \o (IF IsSome(git.branches) THEN <<" ">> \o BranchListText(Unwrap(git.branches)) ELSE <<>>)
    \o <<" ", "}">>

TriggersText(git) == Kw.triggers \o <<" ", "{", " ">> \o GitText(git) \o <<" ", "}">>

StepText(step) ==
    Kw.step \o <<" ">> \o StringLiteral(step.name) \o <<" ", "{", " ">>
    \o FieldText(Kw.run, MultilineString(step.run))
    \o (IF IsSome(step.allow_failure)
        THEN <<" ">> \o FieldText(Kw.allow_failure, BoolLiteral(Unwrap(step.allow_failure)))
        ELSE <<>>)
    \o <<" ", "}">>

StepsText(steps) ==
    Kw.steps \o <<" ", "{">> \o Spaced([i \in 1..Len(steps) |-> StepText(steps[i])]) \o <<" ", "}">>

\* The three blocks of a file, in order, without the enclosing "pipeline { }".
BlockTexts(doc) ==
    (IF MetadataFields(doc) # <<>> THEN <<MetadataText(doc)>> ELSE <<>>)
    \o (IF IsSome(doc.triggers) THEN <<TriggersText(Unwrap(doc.triggers))>> ELSE <<>>)
    \o <<StepsText(doc.steps)>>

\* The text of a file.
FileText(doc) == Kw.pipeline \o <<" ", "{">> \o Spaced(BlockTexts(doc)) \o <<" ", "}">>

\* The pairs the grammar produces for the productions the parser looks at.
Pair(rule, text, inner) == [rule |-> rule, text |-> text, inner |-> inner]

BranchListPair(branches) ==
    Pair("branch_list", BranchListText(branches),
         [i \in 1..Len(branches) |-> Pair("string_literal", StringLiteral(branches[i]), <<>>)])

GitPair(git) ==
    Pair("git", GitText(git),
         IF IsSome(git.branches) THEN <<BranchListPair(Unwrap(git.branches))>> ELSE <<>>)

TriggersPair(git) == Pair("triggers", TriggersText(git), <<GitPair(git)>>)

StepPair(step) ==
    Pair("step", StepText(step),
         <<Pair("string_literal", StringLiteral(step.name), <<>>),
           Pair("multiline_string", MultilineString(step.run), <<>>)>>
         \o (IF IsSome(step.allow_failure)
             THEN <<Pair("boolean", BoolLiteral(Unwrap(step.allow_failure)), <<>>)>>
             ELSE <<>>))

StepsPair(steps) ==
    Pair("steps", StepsText(steps), [i \in 1..Len(steps) |-> StepPair(steps[i])])

FilePair(doc) ==
    Pair("pipeline", FileText(doc),
         (IF MetadataFields(doc) # <<>> THEN <<Pair("pipeline_metadata", MetadataText(doc), <<>>)>> ELSE <<>>)
         \o (IF IsSome(doc.triggers) THEN <<TriggersPair(Unwrap(doc.triggers))>> ELSE <<>>)
         \o <<StepsPair(doc.steps)>>)

\* PulsefileParser::parse(Rule::file, input): the text is accepted when it is the
\* text of a file with the blocks of the document, and rejected otherwise.
PulsefileParser_parse(src) ==
    IF IsSome(src.doc) /\ src.text = FileText(Unwrap(src.doc))
    THEN [tag |-> "Ok", value |-> <<FilePair(Unwrap(src.doc))>>]
    ELSE [tag |-> "Err", error |-> "pest"]

-----------------------------------------------------------------------------
(* parse_pulsefile: pulsiora-parser/src/parser.rs *)

ParseError == [tag |-> "Err", error |-> "ParseError"]

\* Mutant: a text the grammar rejects is parsed as the empty pipeline.
parse_pulsefile_Lenient(src) ==
    LET pairs == PulsefileParser_parse(src)
    IN IF pairs.tag = "Err" THEN parse_pipeline(Pair("pipeline", <<>>, <<>>))
       ELSE IF pairs.value = <<>> THEN ParseError
       ELSE parse_pipeline(Head(pairs.value))

parse_pulsefile(src) ==
    LET pairs == PulsefileParser_parse(src)
    IN IF pairs.tag = "Err" THEN ParseError
       ELSE IF pairs.value = <<>> THEN ParseError
       ELSE parse_pipeline(Head(pairs.value))

-----------------------------------------------------------------------------
(* The parser alone, over a family of Pulsefiles *)

\* Names of fields the parser does not know.
UnknownName ==
    [skip_on_push |-> <<"s", "k", "i", "p", "_", "o", "n", "_", "p", "u", "s", "h">>,
     cache |-> <<"c", "a", "c", "h", "e">>,
     nickname |-> <<"n", "i", "c", "k", "n", "a", "m", "e">>]

KnownFlags == {Str.on_push, Str.on_pull_request, Str.on_merge, Str.on_tag, Str.on_release,
               Str.on_branch_create, Str.on_branch_delete}
UnknownFlags == {UnknownName.skip_on_push, UnknownName.cache}

DeclaredNames == {<<"c", "i">>, <<"a", ";", "b">>}
DeclaredVersions == {<<"2", ".", "0">>}
UnknownMetadata == {[key |-> UnknownName.nickname, value |-> <<"z">>]}

OptionOf(S) == {None} \cup {Some(x) : x \in S}

DocOf(unknown, name, version, triggers, steps) ==
    [unknown |-> unknown, name |-> name, version |-> version, triggers |-> triggers, steps |-> steps]

\* Field lists of a git block: every field is declared at most once.
BoolFields == [key : KnownFlags \cup UnknownFlags, value : BOOLEAN]
GitFieldLists ==
    {fs \in SeqsUpTo(BoolFields, MaxFields) :
        \A i, j \in 1..Len(fs) : fs[i].key = fs[j].key => i = j}
BranchDecls == {None, Some(<<Main>>), Some(<<Main, FeatureGlob>>), Some(<<FeatureGlob, Main>>)}
GitBlocks == [fields : GitFieldLists, branches : BranchDecls]

EmptyGit == [fields |-> <<>>, branches |-> None]
PlainGit == [fields |-> <<[key |-> Str.on_push, value |-> TRUE]>>, branches |-> Some(<<Main>>)]
FewTriggers == {None, Some(EmptyGit), Some(PlainGit)}

StepDecls == [name : {<<"a">>, <<"b">>}, run : {<<>>, <<"x">>}, allow_failure : OptionOf(BOOLEAN)]
StepLists == SeqsUpTo(StepDecls, MaxSteps)

Docs ==
    {DocOf(u, n, v, t, <<>>) : u \in OptionOf(UnknownMetadata), n \in OptionOf(DeclaredNames),
                               v \in OptionOf(DeclaredVersions), t \in FewTriggers}
    \cup {DocOf(None, None, None, Some(g), <<>>) : g \in GitBlocks}
    \cup {DocOf(None, None, None, t, ss) : t \in FewTriggers, ss \in StepLists}

MinimalDoc == DocOf(None, None, None, Some(EmptyGit), <<>>)

\* Texts the grammar rejects: the empty text, a text that is no file at all, and
\* files written without the pipeline keyword.
RejectedInputs ==
    {[text |-> <<>>, doc |-> None], [text |-> <<>>, doc |-> Some(MinimalDoc)],
     [text |-> <<"x">>, doc |-> None]}
    \cup {[text |-> SliceFrom(FileText(d), Len(Kw.pipeline) + 1), doc |-> Some(d)] :
            d \in {DocOf(None, n, None, t, <<>>) : n \in OptionOf(DeclaredNames), t \in FewTriggers}}

ParseInputs == {[text |-> FileText(d), doc |-> Some(d)] : d \in Docs} \cup RejectedInputs

ParseInit ==
    /\ input \in ParseInputs
    /\ parse_result = None
    /\ pipeline = PipelineOf(GitTriggersOf({}, <<>>), <<>>)
    /\ git_event = GitEventOf("Push", None, None)
    /\ pc = "start"
    /\ matched = None
    /\ step_results = <<>>
    /\ pipeline_status = "Unset"
    /\ idx = 0
    /\ proc_log = <<>>
    /\ ret = None
    /\ NoExecutionId
    /\ NoServer

\* One call of parse_pulsefile(input).
ParseCall ==
    /\ parse_result = None
    /\ parse_result' = Some(parse_pulsefile(input))
    /\ UNCHANGED <<pipeline, git_event, pc, matched, step_results, pipeline_status, idx,
                   proc_log, ret, input, uuid_count, execution_id, storage, store_log,
                   http, others, delivery>>

ParseNext == ParseCall

SpecParse == ParseInit /\ [][ParseNext]_vars

-----------------------------------------------------------------------------
(* The storage alone: any calls of store_execution, register_repo, unregister_repo *)

Uuids == 1..MaxStores
RepoIdentifiers == {"test/repo", "other/repo"}

\* Values of started_at; two executions may start at the same time.
StartTimes == {1, 2}

\* create_test_execution(id), for either repository and with either start time.
StorableExecutions ==
    [id : Uuids,
     pipeline_name : {"test"},
     repository : [full_name : RepoIdentifiers],
     status : {"Success"},
     started_at : StartTimes,
     step_results : {<<>>}]

RegisteredRepos == [repo_identifier : RepoIdentifiers, pulsefile : {"pipeline { }"}]

IdTexts == {Hyphenated(u) : u \in Uuids \cup {MaxStores + 1}}
           \cup {Simple(u) : u \in Uuids} \cup {NotAUuid}

StorageInit ==
    /\ storage = InMemoryStorage_new
    /\ store_log = <<>>
    /\ http = None
    /\ others = <<>>
    /\ delivery = NoDelivery
    /\ NoExecutionId
    /\ input = NoInput
    /\ parse_result = None
    /\ pipeline = PipelineOf(GitTriggersOf({}, <<>>), <<>>)
    /\ git_event = GitEventOf("Push", None, None)
    /\ pc = "start"
    /\ matched = None
    /\ step_results = <<>>
    /\ pipeline_status = "Unset"
    /\ idx = 0
    /\ proc_log = <<>>
    /\ ret = None

\* One call storage.store_execution(execution).
StoreExecutionCall ==
    /\ Len(store_log) < MaxStores
    /\ \E execution \in StorableExecutions :
        /\ storage' = store_execution(storage, execution)
        /\ store_log' = Append(store_log, execution)
    /\ UNCHANGED <<pipeline, git_event, pc, matched, step_results, pipeline_status, idx,
                   proc_log, ret, input, parse_result, uuid_count, execution_id, http, others, delivery>>

\* One call storage.register_repo(repo).
RegisterRepoCall ==
    /\ \E repo \in RegisteredRepos : storage' = register_repo(storage, repo)
    /\ UNCHANGED <<pipeline, git_event, pc, matched, step_results, pipeline_status, idx,
                   proc_log, ret, input, parse_result, uuid_count, execution_id, store_log,
                   http, others, delivery>>

\* One call storage.unregister_repo(repo_identifier).
UnregisterRepoCall ==
    /\ \E repo_identifier \in RepoIdentifiers :
        storage' = unregister_repo(storage, repo_identifier)
    /\ UNCHANGED <<pipeline, git_event, pc, matched, step_results, pipeline_status, idx,
                   proc_log, ret, input, parse_result, uuid_count, execution_id, store_log,
                   http, others, delivery>>

StorageNext ==
    \/ StoreExecutionCall
    \/ RegisterRepoCall
    \/ UnregisterRepoCall

SpecStorage == StorageInit /\ [][StorageNext]_vars

-----------------------------------------------------------------------------
(* One webhook request: handle_github_webhook, execute_from_pulsefile *)

\* Pulsefiles a repository can have: some that parse, with few steps, and the
\* rejected ones.
WebhookSteps ==
    {[name |-> <<"a">>, run |-> <<"x">>, allow_failure |-> None],
     [name |-> <<"b">>, run |-> <<"x">>, allow_failure |-> Some(TRUE)]}
WebhookInputs ==
    {[text |-> FileText(d), doc |-> Some(d)] :
        d \in {DocOf(None, None, None, t, ss) :
                t \in FewTriggers, ss \in SeqsUpTo(WebhookSteps, MaxSteps)}}
    \cup RejectedInputs
WebhookEvents == {GitEventOf("Push", Some(Main), None), GitEventOf("PullRequest", Some(Main), None)}

\* The repository is registered with its Pulsefile (register_repo accepts only a
\* Pulsefile that parses), or it is not and the Pulsefile is fetched.
WebhookInit ==
    /\ input \in WebhookInputs
    /\ git_event \in WebhookEvents
    /\ storage \in {InMemoryStorage_new}
                   \cup {register_repo(InMemoryStorage_new,
                                       [repo_identifier |-> TestRepo.full_name, pulsefile |-> input]) :
                            ok \in {x \in {TRUE} : parse_pulsefile(input).tag = "Ok"}}
    /\ pc = "webhook"
    /\ http = None
    /\ store_log = <<>>
    /\ others = <<>>
    /\ delivery = NoDelivery
    /\ NoExecutionId
    /\ parse_result = None
    /\ pipeline = PipelineOf(GitTriggersOf({}, <<>>), <<>>)
    /\ matched = None
    /\ step_results = <<>>
    /\ pipeline_status = "Unset"
    /\ idx = 0
    /\ proc_log = <<>>
    /\ ret = None

\* The handler answers before it has a Pulsefile: the payload names no repository,
\* the kind of event is not handled, or the Pulsefile could not be fetched.
WebhookEndsEarly ==
    /\ pc = "webhook"
    /\ \E reason \in {"no_repository", "unhandled_event", "fetch_failed"} :
        /\ reason = "fetch_failed" =>
                get_repo_pulsefile(storage, git_event.repository.full_name) = None
        /\ http' = Some(IF reason = "no_repository" THEN "BAD_REQUEST" ELSE "OK")
    /\ pc' = "responded"
    /\ UNCHANGED <<pipeline, git_event, matched, step_results, pipeline_status, idx, proc_log,
                   ret, input, parse_result, uuid_count, execution_id, storage, store_log,
                   others, delivery>>

\* Mutant: a Pulsefile that does not parse is run as the empty pipeline.
ExecuteFromPulsefile_RunsDefault ==
    /\ pc = "webhook"
    /\ LET pulsefile_content ==
            UnwrapOr(get_repo_pulsefile(storage, git_event.repository.full_name), input)
           parsed == parse_pulsefile(pulsefile_content)
       IN /\ parse_result' = Some(parsed)
          /\ pipeline' = IF parsed.tag = "Err"
                         THEN parse_pipeline(Pair("pipeline", <<>>, <<>>)).value
                         ELSE parsed.value
          /\ pc' = "start"
          /\ UNCHANGED <<ret, http>>
    /\ UNCHANGED <<git_event, matched, step_results, pipeline_status, idx, proc_log, input,
                   uuid_count, execution_id, storage, store_log, others, delivery>>

\* The handler has the Pulsefile (stored or fetched) and calls execute_from_pulsefile,
\* which parses it: on an error it returns the error and the handler answers 500,
\* otherwise execute is entered with the parsed pipeline.
ExecuteFromPulsefile ==
    /\ pc = "webhook"
    /\ LET pulsefile_content ==
            UnwrapOr(get_repo_pulsefile(storage, git_event.repository.full_name), input)
           parsed == parse_pulsefile(pulsefile_content)
       IN /\ parse_result' = Some(parsed)
          /\ IF parsed.tag = "Err"
             THEN /\ ret' = Some(parsed)
                  /\ http' = Some("INTERNAL_SERVER_ERROR")
                  /\ pc' = "responded"
                  /\ UNCHANGED pipeline
             ELSE /\ pipeline' = parsed.value
                  /\ pc' = "start"
                  /\ UNCHANGED <<ret, http>>
    /\ UNCHANGED <<git_event, matched, step_results, pipeline_status, idx, proc_log, input,
                   uuid_count, execution_id, storage, store_log, others, delivery>>

\* execute has returned Ok(exec): the handler stores the execution and answers 200.
StoreAndRespond ==
    /\ pc = "done"
    /\ http = None
    /\ storage' = store_execution(storage, Unwrap(ret).value)
    /\ store_log' = Append(store_log, Unwrap(ret).value)
    /\ http' = Some("OK")
    /\ pc' = "responded"
    /\ UNCHANGED <<pipeline, git_event, matched, step_results, pipeline_status, idx, proc_log,
                   ret, input, parse_result, uuid_count, execution_id, others, delivery>>

WebhookNext ==
    \/ WebhookEndsEarly
    \/ ExecuteFromPulsefile
    \/ CheckTrigger
    \/ StepSpawnFails
    \/ StepSpawn
    \/ StepExit
    \/ Finalize
    \/ StoreAndRespond

SpecWebhook == WebhookInit /\ [][WebhookNext]_vars

-----------------------------------------------------------------------------
(* Concurrent executions: several calls of execute in progress on one executor. *)
(* The variables of the engine hold the locals of the call that takes the next  *)
(* step, others holds the locals of the calls that are in progress beside it.   *)
(* The only field of PipelineExecutor, work_dir, is never written by execute.   *)

\* The locals of the call that the variables of the engine hold.
Locals ==
    [pipeline |-> pipeline, git_event |-> git_event, pc |-> pc, matched |-> matched,
     step_results |-> step_results, pipeline_status |-> pipeline_status, idx |-> idx,
     proc_log |-> proc_log, ret |-> ret, execution_id |-> execution_id]

\* The locals of a call of execute(p, event) at its entry.
EntryLocals(p, event) ==
    [pipeline |-> p, git_event |-> event, pc |-> "start", matched |-> None,
     step_results |-> <<>>, pipeline_status |-> "Unset", idx |-> 0,
     proc_log |-> <<>>, ret |-> None, execution_id |-> None]

ConcurrentPipelines ==
    {PipelineOf(GitTriggersOf({"Push"}, <<Star>>), ss) :
        ss \in {<<StepOf("build", FALSE), StepOf("test", TRUE)>>, <<StepOf("test", TRUE)>>}}
ConcurrentEvents == {GitEventOf("Push", Some(Main), None), GitEventOf("PullRequest", Some(Main), None)}
ConcurrentEntries == {EntryLocals(p, e) : p \in ConcurrentPipelines, e \in ConcurrentEvents}

ConcurrentInit ==
    /\ \E c \in ConcurrentEntries :
        /\ pipeline = c.pipeline
        /\ git_event = c.git_event
    /\ pc = "start"
    /\ matched = None
    /\ step_results = <<>>
    /\ pipeline_status = "Unset"
    /\ idx = 0
    /\ proc_log = <<>>
    /\ ret = None
    /\ NoExecutionId
    /\ others \in [1..(MaxExecutions - 1) -> ConcurrentEntries]
    /\ delivery = NoDelivery
    /\ storage = InMemoryStorage_new
    /\ store_log = <<>>
    /\ http = None
    /\ input = NoInput
    /\ parse_result = None

\* Mutant: the vector of step results is one vector shared by all executions.
SwitchExecution_SharedResults ==
    /\ \E k \in 1..Len(others) :
        /\ pipeline' = others[k].pipeline
        /\ git_event' = others[k].git_event
        /\ pc' = others[k].pc
        /\ matched' = others[k].matched
        /\ pipeline_status' = others[k].pipeline_status
        /\ idx' = others[k].idx
        /\ proc_log' = others[k].proc_log
        /\ ret' = others[k].ret
        /\ execution_id' = others[k].execution_id
        /\ others' = [others EXCEPT ![k] = Locals]
    /\ UNCHANGED <<step_results, uuid_count, storage, store_log, http, input, parse_result,
                 delivery>>

\* Another execution takes the next step.
SwitchExecution ==
    /\ \E k \in 1..Len(others) :
        /\ pipeline' = others[k].pipeline
        /\ git_event' = others[k].git_event
        /\ pc' = others[k].pc
        /\ matched' = others[k].matched
        /\ step_results' = others[k].step_results
        /\ pipeline_status' = others[k].pipeline_status
        /\ idx' = others[k].idx
        /\ proc_log' = others[k].proc_log
        /\ ret' = others[k].ret
        /\ execution_id' = others[k].execution_id
        /\ others' = [others EXCEPT ![k] = Locals]
    /\ UNCHANGED <<uuid_count, storage, store_log, http, input, parse_result, delivery>>

ConcurrentNext ==
    \/ SwitchExecution
    \/ CheckTrigger
    \/ StepSpawnFails
    \/ StepSpawn
    \/ StepExit
    \/ Finalize

SpecConcurrent == ConcurrentInit /\ [][ConcurrentNext]_vars

-----------------------------------------------------------------------------
(* The webhook adapter: pulsiora-server/src/main.rs, from the payload of a     *)
(* delivery and its X-GitHub-Event header to the GitEvent handed to execute.   *)

RefsHeads == <<"r", "e", "f", "s", "/", "h", "e", "a", "d", "s", "/">>
RefsTags == <<"r", "e", "f", "s", "/", "t", "a", "g", "s", "/">>

\* payload.ref_field.as_ref().and_then(|r| r.strip_prefix("refs/heads/").map(String::from))
branch_of(ref_field) ==
    IF ref_field = None THEN None ELSE StripPrefix(Unwrap(ref_field), RefsHeads)

\* Mutant: a push of a tag carries the tag, as a create of a tag does.
create_push_event_WithTag(repo, payload) ==
    [event_type |-> "Push", repository |-> repo, branch |-> branch_of(payload.ref_field),
     tag |-> IF payload.ref_field = None THEN None
             ELSE StripPrefix(Unwrap(payload.ref_field), RefsTags)]

create_push_event(repo, payload) ==
    [event_type |-> "Push", repository |-> repo, branch |-> branch_of(payload.ref_field),
     tag |-> None]

create_pull_request_event(repo, payload) ==
    [event_type |-> "PullRequest", repository |-> repo, branch |-> None, tag |-> None]

create_create_event(repo, payload) ==
    LET ref_str == UnwrapOr(payload.ref_field, <<>>)
        is_tag == StartsWith(ref_str, RefsTags)
    IN [event_type |-> IF is_tag THEN "Tag" ELSE "BranchCreate",
        repository |-> repo,
        branch |-> IF ~is_tag THEN StripPrefix(ref_str, RefsHeads) ELSE None,
        tag |-> IF is_tag THEN StripPrefix(ref_str, RefsTags) ELSE None]

create_delete_event(repo, payload) ==
    [event_type |-> "BranchDelete", repository |-> repo, branch |-> branch_of(payload.ref_field),
     tag |-> None]

\* match event_type { "push" => .., "pull_request" => .., "create" => .., "delete" => ..,
\* _ => return Ok(StatusCode::OK) }: the event, or None in the last arm.
create_event(event_type, repo, payload) ==
    CASE event_type = "push" -> Some(create_push_event(repo, payload))
      [] event_type = "pull_request" -> Some(create_pull_request_event(repo, payload))
      [] event_type = "create" -> Some(create_create_event(repo, payload))
      [] event_type = "delete" -> Some(create_delete_event(repo, payload))
      [] OTHER -> None

\* A delivery as handle_github_webhook receives it.
DeliveryOf(event_type, repository, ref_field) ==
    [event_type |-> event_type, payload |-> [repository |-> repository, ref_field |-> ref_field],
     held |-> "none", reads |-> 0, writes |-> 0]

\* The value of git_event before the handler has built the event.
NoGitEvent == GitEventOf("Push", None, None)

HandledEventTypes == {"push", "pull_request", "create", "delete"}
RefFields ==
    {None, Some(RefsHeads \o Main), Some(RefsHeads \o FeatureAbc), Some(RefsTags \o <<"v">>),
     Some(Main)}
AdapterTriggers ==
    {GitTriggersOf(on, bl) :
        on \in SUBSET {"Push", "PullRequest", "Tag"},
        bl \in SeqsUpTo(PatternStrings, MaxPatterns)}

\* One delivery of a handled kind for a repository whose pipeline has one step.
AdapterInit ==
    /\ pipeline \in {PipelineOf(t, <<StepOf("build", FALSE)>>) : t \in AdapterTriggers}
    /\ delivery \in {DeliveryOf(e, Some(TestRepo), r) : e \in HandledEventTypes, r \in RefFields}
    /\ git_event = NoGitEvent
    /\ pc = "webhook"
    /\ matched = None
    /\ step_results = <<>>
    /\ pipeline_status = "Unset"
    /\ idx = 0
    /\ proc_log = <<>>
    /\ ret = None
    /\ input = NoInput
    /\ parse_result = None
    /\ NoExecutionId
    /\ storage = InMemoryStorage_new /\ store_log = <<>> /\ http = None /\ others = <<>>

\* The handler builds the event and execute is entered with it.
CreateEventCall ==
    /\ pc = "webhook"
    /\ git_event' = Unwrap(create_event(delivery.event_type, Unwrap(delivery.payload.repository),
                                        delivery.payload))
    /\ pc' = "start"
    /\ UNCHANGED <<pipeline, matched, step_results, pipeline_status, idx, proc_log, ret,
                   input, parse_result, uuid_count, execution_id, storage, store_log,
                   http, others, delivery>>

AdapterNext ==
    \/ CreateEventCall
    \/ CheckTrigger
    \/ StepSpawnFails
    \/ StepSpawn
    \/ StepExit
    \/ Finalize

SpecAdapter == AdapterInit /\ [][AdapterNext]_vars

-----------------------------------------------------------------------------
(* The server: pulsiora-server/src/main.rs.  Several webhook deliveries are in  *)
(* progress on one AppState, beside register, unregister and query requests.    *)
(* The variables hold the locals of the handler that takes the next step, as in *)
(* the concurrent executions above; others holds those of the other handlers.   *)
(* state.storage is a tokio RwLock: delivery.held is the guard a handler holds. *)

\* The locals of the handler that the variables hold.
HandlerLocals ==
    [locals |-> Locals, input |-> input, parse_result |-> parse_result, http |-> http,
     delivery |-> delivery]

\* The locals of handle_github_webhook at its entry.
EntryHandler(d) ==
    [locals |-> [EntryLocals(PipelineOf(GitTriggersOf({}, <<>>), <<>>), NoGitEvent)
                    EXCEPT !.pc = "webhook"],
     input |-> NoInput, parse_result |-> None, http |-> None, delivery |-> d]

\* All handlers in progress: the one that takes the next step first.
Handlers == <<HandlerLocals>> \o others

\* RwLock: read() waits while a writer holds the lock, write() while anyone does.
ReadFree(handlers) == \A k \in 1..Len(handlers) : handlers[k].delivery.held # "write"
WriteFree(handlers) == \A k \in 1..Len(handlers) : handlers[k].delivery.held = "none"

\* The Pulsefile of the requests and of the repository on GitHub: one that parses,
\* with one step, and one that does not.
ServerPulsefile ==
    LET d == DocOf(None, None, None, Some(PlainGit),
                   <<[name |-> <<"a">>, run |-> <<"x">>, allow_failure |-> None]>>)
    IN [text |-> FileText(d), doc |-> Some(d)]
RejectedPulsefile == [text |-> <<"x">>, doc |-> None]
Pulsefiles == {ServerPulsefile, RejectedPulsefile}

\* Deliveries: one without repository, one of a kind that is not handled, a push
\* to the main branch and a pull request.  The handlers beside the first one each
\* serve a push.
PushDelivery == DeliveryOf("push", Some(TestRepo), Some(RefsHeads \o Main))
ServerDeliveries ==
    {DeliveryOf("push", None, Some(RefsHeads \o Main)),
     DeliveryOf("ping", Some(TestRepo), None),
     PushDelivery,
     DeliveryOf("pull_request", Some(TestRepo), None)}

ServerInit ==
    /\ delivery \in ServerDeliveries
    /\ others = [k \in 1..(MaxExecutions - 1) |-> EntryHandler(PushDelivery)]
    /\ pipeline = PipelineOf(GitTriggersOf({}, <<>>), <<>>)
    /\ git_event = NoGitEvent
    /\ pc = "webhook"
    /\ matched = None
    /\ step_results = <<>>
    /\ pipeline_status = "Unset"
    /\ idx = 0
    /\ proc_log = <<>>
    /\ ret = None
    /\ input = NoInput
    /\ parse_result = None
    /\ NoExecutionId
    /\ storage = InMemoryStorage_new
    /\ store_log = <<>>
    /\ http = None

\* Another handler takes the next step: the handlers take turns in a ring, and a
\* handler may pass its turn on without taking a step.
SwitchHandler ==
    /\ \E k \in {1} \cap DOMAIN others :
        /\ pipeline' = others[k].locals.pipeline
        /\ git_event' = others[k].locals.git_event
        /\ pc' = others[k].locals.pc
        /\ matched' = others[k].locals.matched
        /\ step_results' = others[k].locals.step_results
        /\ pipeline_status' = others[k].locals.pipeline_status
        /\ idx' = others[k].locals.idx
        /\ proc_log' = others[k].locals.proc_log
        /\ ret' = others[k].locals.ret
        /\ execution_id' = others[k].locals.execution_id
        /\ input' = others[k].input
        /\ parse_result' = others[k].parse_result
        /\ http' = others[k].http
        /\ delivery' = others[k].delivery
        /\ others' = Append(Tail(others), HandlerLocals)
    /\ UNCHANGED <<uuid_count, storage, store_log>>

\* handle_github_webhook up to the event: 400 without repository, 200 for a kind
\* of event that is not handled.
ReceiveWebhook ==
    /\ pc = "webhook"
    /\ IF delivery.payload.repository = None
       THEN /\ http' = Some("BAD_REQUEST")
            /\ pc' = "responded"
            /\ UNCHANGED git_event
       ELSE LET event == create_event(delivery.event_type, Unwrap(delivery.payload.repository),
                                      delivery.payload)
            IN IF event = None
               THEN /\ http' = Some("OK")
                    /\ pc' = "responded"
                    /\ UNCHANGED git_event
               ELSE /\ git_event' = Unwrap(event)
                    /\ pc' = "lock_read"
                    /\ UNCHANGED http
    /\ UNCHANGED <<pipeline, matched, step_results, pipeline_status, idx, proc_log, ret,
                   input, parse_result, uuid_count, execution_id, storage, store_log,
                   others, delivery>>

\* let storage = state.storage.read().await
AcquireRead ==
    /\ pc = "lock_read"
    /\ delivery.held = "none"
    /\ ReadFree(others)
    /\ delivery' = [delivery EXCEPT !.held = "read"]
    /\ pc' = "reading"
    /\ UNCHANGED <<pipeline, git_event, matched, step_results, pipeline_status, idx, proc_log,
                   ret, input, parse_result, uuid_count, execution_id, storage, store_log,
                   http, others>>

\* Mutant: the read guard is kept until the handler returns.
ReadPulsefile_KeepsGuard ==
    /\ pc = "reading"
    /\ LET pulsefile == get_repo_pulsefile(storage, git_event.repository.full_name)
       IN /\ delivery' = [delivery EXCEPT !.reads = @ + 1]
          /\ IF pulsefile = None
             THEN pc' = "fetch" /\ UNCHANGED input
             ELSE pc' = "execute" /\ input' = Unwrap(pulsefile)
    /\ UNCHANGED <<pipeline, git_event, matched, step_results, pipeline_status, idx, proc_log,
                   ret, parse_result, uuid_count, execution_id, storage, store_log,
                   http, others>>

\* storage.get_repo_pulsefile(&repo_identifier) and drop(storage), in either branch.
ReadPulsefile ==
    /\ pc = "reading"
    /\ LET pulsefile == get_repo_pulsefile(storage, git_event.repository.full_name)
       IN /\ delivery' = [delivery EXCEPT !.held = "none", !.reads = @ + 1]
          /\ IF pulsefile = None
             THEN pc' = "fetch" /\ UNCHANGED input
             ELSE pc' = "execute" /\ input' = Unwrap(pulsefile)
    /\ UNCHANGED <<pipeline, git_event, matched, step_results, pipeline_status, idx, proc_log,
                   ret, parse_result, uuid_count, execution_id, storage, store_log,
                   http, others>>

\* fetch_pulsefile(&git_event.repository).await: the text GitHub serves, or an error,
\* which the handler answers with 200.
FetchPulsefile ==
    /\ pc = "fetch"
    /\ \E fetched \in {Some(p) : p \in Pulsefiles} \cup {None} :
        IF fetched = None
        THEN /\ http' = Some("OK")
             /\ pc' = "responded"
             /\ UNCHANGED input
        ELSE /\ input' = Unwrap(fetched)
             /\ pc' = "execute"
             /\ UNCHANGED http
    /\ UNCHANGED <<pipeline, git_event, matched, step_results, pipeline_status, idx, proc_log,
                   ret, parse_result, uuid_count, execution_id, storage, store_log, others,
                   delivery>>

\* state.executor.execute_from_pulsefile(&pulsefile_content, &git_event): a text that
\* does not parse is answered 500, otherwise execute is entered.
ExecuteObtainedPulsefile ==
    /\ pc = "execute"
    /\ LET parsed == parse_pulsefile(input)
       IN /\ parse_result' = Some(parsed)
          /\ IF parsed.tag = "Err"
             THEN /\ ret' = Some(parsed)
                  /\ http' = Some("INTERNAL_SERVER_ERROR")
                  /\ pc' = "responded"
                  /\ UNCHANGED pipeline
             ELSE /\ pipeline' = parsed.value
                  /\ pc' = "start"
                  /\ UNCHANGED <<ret, http>>
    /\ UNCHANGED <<git_event, matched, step_results, pipeline_status, idx, proc_log, input,
                   uuid_count, execution_id, storage, store_log, others, delivery>>

\* The block { let mut storage = state.storage.write().await;
\* storage.store_execution(execution.clone()); } and Ok(StatusCode::OK): the guard is
\* taken when no handler holds one, and released at the end of the block.
StoreExecution ==
    /\ pc = "done"
    /\ delivery.held = "none"
    /\ WriteFree(others)
    /\ storage' = store_execution(storage, Unwrap(ret).value)
    /\ store_log' = Append(store_log, Unwrap(ret).value)
    /\ delivery' = [delivery EXCEPT !.writes = @ + 1]
    /\ http' = Some("OK")
    /\ pc' = "responded"
    /\ UNCHANGED <<pipeline, git_event, matched, step_results, pipeline_status, idx, proc_log,
                   ret, input, parse_result, uuid_count, execution_id, others>>

\* pulsiora_parser::parse_pulsefile on the Pulsefiles of the requests.
parse_of == [pulsefile \in Pulsefiles |-> parse_pulsefile(pulsefile)]

\* Mutant: the Pulsefile of a registration is stored without being parsed.
register_repo_handler_Unchecked(self, req) ==
    [storage |-> register_repo(self, req), status |-> "OK"]

\* register_repo (the handler): the storage it leaves and the status it answers.
register_repo_handler(self, req) ==
    IF parse_of[req.pulsefile].tag = "Err"
    THEN [storage |-> self, status |-> "BAD_REQUEST"]
    ELSE [storage |-> register_repo(self, req), status |-> "OK"]

RegisterRequests == [repo_identifier : {TestRepo.full_name}, pulsefile : Pulsefiles]

\* POST /api/v1/repos
RegisterRepoRequest ==
    /\ \E req \in RegisterRequests :
        LET out == register_repo_handler(storage, req)
        IN /\ out.status = "OK" => WriteFree(Handlers)
           /\ storage' = out.storage
    /\ UNCHANGED <<pipeline, git_event, pc, matched, step_results, pipeline_status, idx,
                   proc_log, ret, input, parse_result, uuid_count, execution_id, store_log,
                   http, others, delivery>>

\* DELETE /api/v1/repos/:repo
UnregisterRepoRequest ==
    /\ WriteFree(Handlers)
    /\ storage' = unregister_repo_handler(storage, TestRepo.full_name).storage
    /\ UNCHANGED <<pipeline, git_event, pc, matched, step_results, pipeline_status, idx,
                   proc_log, ret, input, parse_result, uuid_count, execution_id, store_log,
                   http, others, delivery>>

\* GET of one execution, of all executions and of the pipeline status of a
\* repository: each reads the storage under the read lock and changes nothing.
QueryRequest ==
    /\ ReadFree(Handlers)
    /\ \A id \in {Hyphenated(u) : u \in 1..(uuid_count + 1)} :
            Len(get_execution(storage, id)) <= 1
    /\ Cardinality(list_executions(storage)) >= 1
    /\ \A param \in {None, Some(0), Some(1)} :
            get_pipeline_status(storage, TestRepo.full_name, param).tag \in {"Ok", "Err"}
    /\ UNCHANGED vars

ServerNext ==
    \/ SwitchHandler
    \/ ReceiveWebhook
    \/ AcquireRead
    \/ ReadPulsefile
    \/ FetchPulsefile
    \/ ExecuteObtainedPulsefile
    \/ CheckTrigger
    \/ StepSpawnFails
    \/ StepSpawn
    \/ StepExit
    \/ Finalize
    \/ StoreExecution
    \/ RegisterRepoRequest
    \/ UnregisterRepoRequest
    \/ QueryRequest

SpecServer == ServerInit /\ [][ServerNext]_vars

-----------------------------------------------------------------------------
(* Properties *)

Returned == pc = "done"
Record == Unwrap(ret).value
NumSteps == Len(pipeline.steps)

\* The process of a step did not end with exit code zero, or could not be started.
Fails(outcome) == outcome \in {"Exit1", "Signal", SpawnError}

\* Step k was attempted, failed, and does not allow failure.
FatalFailureAt(k) ==
    /\ ~pipeline.steps[k].allow_failure
    /\ \E j \in 1..Len(proc_log) : proc_log[j].step = k /\ Fails(proc_log[j].outcome)

\* The last recorded result is a failure of a step with allow_failure = false.
StoppedEarly(results) ==
    /\ results # <<>>
    /\ results[Len(results)].status = "Failed"
    /\ ~pipeline.steps[Len(results)].allow_failure

\* The flag of the trigger set that corresponds to an event kind.
FlagFor(t, kind) ==
    [Push |-> t.on_push, PullRequest |-> t.on_pull_request, Merge |-> t.on_merge,
     Tag |-> t.on_tag, Release |-> t.on_release, BranchCreate |-> t.on_branch_create,
     BranchDelete |-> t.on_branch_delete][kind]

\* C1: execute returns status Skipped exactly when the trigger matcher returns false;
\* the record then has no step results, and no step process is ever started for an
\* event the triggers do not match.
C1_SkippedIffNoMatch ==
    /\ ~matches(pipeline.triggers.git, git_event) => proc_log = <<>> /\ step_results = <<>>
    /\ Returned =>
        /\ Record.status = "Skipped" <=> ~matches(pipeline.triggers.git, git_event)
        /\ Record.status = "Skipped" => Record.step_results = <<>> /\ proc_log = <<>>

C1_Witness ==
    Returned /\ Record.status = "Skipped" /\ NumSteps > 0

\* C2: when step k is the first step that fails with allow_failure = false, the
\* returned record has exactly k step results, those of steps 1..k, no process of a
\* step after k was started, and the status is Failed.
C2_StopsAtFirstFatalFailure ==
    Returned /\ matched = Some(TRUE) =>
        \A k \in 1..NumSteps :
            (FatalFailureAt(k) /\ \A h \in 1..(k - 1) : ~FatalFailureAt(h)) =>
                /\ Len(Record.step_results) = k
                /\ \A i \in 1..k : Record.step_results[i].step_name = pipeline.steps[i].name
                /\ \A j \in 1..Len(proc_log) : proc_log[j].step <= k
                /\ Record.status = "Failed"

C2_Witness ==
    /\ Returned
    /\ NumSteps = 2
    /\ FatalFailureAt(1)
    /\ Len(Record.step_results) = 1

\* C3: when every step that fails has allow_failure = true, all n steps run and the
\* final status is Success.
C3_AllowedFailuresSucceed ==
    (/\ Returned
     /\ matched = Some(TRUE)
     /\ \A j \in 1..Len(proc_log) :
            Fails(proc_log[j].outcome) => pipeline.steps[proc_log[j].step].allow_failure) =>
        /\ Len(Record.step_results) = NumSteps
        /\ Record.status = "Success"

\* C4: for a record of an execution whose trigger matched, status is Success exactly
\* when every recorded step result succeeded or belongs to a step with
\* allow_failure = true, and at least one step ran or the pipeline has no steps.
C4_SuccessIffNoFatalFailure ==
    Returned /\ matched = Some(TRUE) =>
        (Record.status = "Success" <=>
            /\ \A i \in 1..Len(Record.step_results) :
                \/ Record.step_results[i].status = "Success"
                \/ pipeline.steps[i].allow_failure
            /\ Len(Record.step_results) >= 1 \/ NumSteps = 0)

\* C5 as stated: every returned record has at most as many step results as the
\* pipeline has steps, and as many unless execution stopped early on a failure of a
\* step with allow_failure = false.
C5_FullLengthUnlessStopped ==
    Returned =>
        /\ Len(Record.step_results) <= NumSteps
        /\ Len(Record.step_results) = NumSteps \/ StoppedEarly(Record.step_results)

\* C5 as amended: every returned record has at most as many step results as the
\* pipeline has steps, and as many unless execution stopped early on a failure of a
\* step with allow_failure = false or the record is Skipped (no step results).
C5_FullLengthUnlessStoppedOrSkipped ==
    Returned =>
        /\ Len(Record.step_results) <= NumSteps
        /\ \/ Len(Record.step_results) = NumSteps
           \/ StoppedEarly(Record.step_results)
           \/ Record.status = "Skipped" /\ Record.step_results = <<>>

C5_Witness ==
    /\ Returned
    /\ Record.status = "Failed"
    /\ NumSteps = 2
    /\ Len(Record.step_results) = 1
    /\ StoppedEarly(Record.step_results)

\* C6: step results are recorded in declared step order: result i carries the name
\* of step i, during the execution and in the returned record.
C6_ResultsAlignedWithSteps ==
    /\ Len(step_results) <= NumSteps
    /\ \A i \in 1..Len(step_results) : step_results[i].step_name = pipeline.steps[i].name
    /\ Returned =>
        /\ Len(Record.step_results) <= NumSteps
        /\ \A i \in 1..Len(Record.step_results) :
            Record.step_results[i].step_name = pipeline.steps[i].name

C6_Witness ==
    /\ Returned
    /\ Len(Record.step_results) = 2
    /\ Record.step_results[1].step_name # Record.step_results[2].step_name

\* C7: execute never returns an error: whatever the step outcomes, what it returns is
\* Ok(record), and every step failure shows as a Failed step result of that record.
C7_ExecuteNeverErrs ==
    /\ IsSome(ret) => Unwrap(ret).tag = "Ok"
    /\ Returned =>
        /\ IsSome(ret)
        /\ \A j \in 1..Len(proc_log) :
            Fails(proc_log[j].outcome) =>
                /\ j <= Len(Record.step_results)
                /\ Record.step_results[j].status = "Failed"

C7_Witness ==
    /\ Returned
    /\ Unwrap(ret).tag = "Ok"
    /\ \E j \in 1..Len(proc_log) : proc_log[j].outcome = SpawnError
    /\ \E j \in 1..Len(proc_log) : proc_log[j].outcome = "Exit1"

\* The status of the execution as an observer sees it: the local status while
\* execute runs, the status of the record once it has returned.
EngineStatus == IF IsSome(ret) THEN Record.status ELSE pipeline_status

\* C8: the status only moves to Running and from Running to Success or Failed, or
\* directly to Skipped before any step; every returned record has status Success,
\* Failed or Skipped and has completed_at set.
C8_StatusTransitions ==
    /\ [](Returned =>
            /\ Record.status \in {"Success", "Failed", "Skipped"}
            /\ IsSome(Record.completed_at))
    /\ [][EngineStatus' # EngineStatus =>
            \/ EngineStatus = "Unset" /\ EngineStatus' = "Running"
            \/ EngineStatus = "Unset" /\ EngineStatus' = "Skipped" /\ proc_log' = <<>>
            \/ EngineStatus = "Running" /\ EngineStatus' \in {"Success", "Failed"}]_vars

C8_Witness ==
    /\ Returned
    /\ Record.status = "Success"
    /\ Len(Record.step_results) = 2
    /\ IsSome(Record.completed_at)

\* C9: when the flag of the event's kind is false, matches returns false whatever the
\* event's branch, its tag and the branch patterns.
C9_KindFlagFalseNeverMatches ==
    IsSome(matched) /\ ~FlagFor(pipeline.triggers.git, git_event.event_type) =>
        matched = Some(FALSE)

C9_Witness ==
    /\ matched = Some(FALSE)
    /\ ~FlagFor(pipeline.triggers.git, git_event.event_type)
    /\ IsSome(git_event.branch)
    /\ matches_branch(pipeline.triggers.git, Unwrap(git_event.branch))
    /\ IsSome(git_event.tag)
    /\ pipeline.triggers.git.on_tag

\* C10: for an event that carries a branch and whose kind flag is set, matches returns
\* the result of matching that branch against the branch patterns, whether or not the
\* event also carries a tag.
C10_BranchDecidesWhenPresent ==
    (/\ IsSome(matched)
     /\ FlagFor(pipeline.triggers.git, git_event.event_type)
     /\ IsSome(git_event.branch)) =>
        Unwrap(matched) =
            (\E i \in 1..Len(pipeline.triggers.git.branches) :
                PatternMatches(pipeline.triggers.git.branches[i], Unwrap(git_event.branch)))

C10_Witness ==
    /\ matched = Some(TRUE)
    /\ FlagFor(pipeline.triggers.git, git_event.event_type)
    /\ IsSome(git_event.branch)
    /\ IsSome(git_event.tag)
    /\ ~pipeline.triggers.git.on_tag
    /\ Len(pipeline.triggers.git.branches) = 2


\* C11 as stated: for an event whose kind flag is set and that carries no branch,
\* matches returns true, whether or not the event carries a tag.
C11_NoBranchAlwaysMatches ==
    (/\ IsSome(matched)
     /\ FlagFor(pipeline.triggers.git, git_event.event_type)
     /\ ~IsSome(git_event.branch)) =>
        matched = Some(TRUE)

\* C11 as amended: for an event whose kind flag is set and that carries no branch,
\* matches returns true when the event carries no tag, and the value of the on_tag
\* flag when it carries a tag (so true for every event of kind Tag).
C11_NoBranchMatchesUnlessTagFlagOff ==
    (/\ IsSome(matched)
     /\ FlagFor(pipeline.triggers.git, git_event.event_type)
     /\ ~IsSome(git_event.branch)) =>
        /\ ~IsSome(git_event.tag) => matched = Some(TRUE)
        /\ IsSome(git_event.tag) => matched = Some(pipeline.triggers.git.on_tag)
        /\ git_event.event_type = "Tag" => matched = Some(TRUE)

C11_Witness ==
    /\ matched = Some(FALSE)
    /\ FlagFor(pipeline.triggers.git, git_event.event_type)
    /\ ~IsSome(git_event.branch)
    /\ IsSome(git_event.tag)
    /\ git_event.event_type = "Push"

\* The only pattern of the trigger set, when it has exactly one.
OnlyPattern == pipeline.triggers.git.branches[1]
Branch == Unwrap(git_event.branch)
HasChar(s, c) == \E i \in 1..Len(s) : s[i] = c

\* C12: a pattern "prefix/*" with a non-empty prefix matches a branch exactly when
\* the branch begins with "prefix/" (the prefix and the slash).
C12_GlobMatchesPrefixWithSlash ==
    (/\ IsSome(matched)
     /\ Len(pipeline.triggers.git.branches) = 1
     /\ Len(OnlyPattern) >= 3
     /\ EndsWith(OnlyPattern, <<"/", "*">>)) =>
        Unwrap(matched) = StartsWith(Branch, SubSeq(OnlyPattern, 1, Len(OnlyPattern) - 1))

\* C13: a pattern list containing "*" matches every branch; a single pattern with
\* no wildcard matches exactly the branch equal to it; the empty list matches no
\* branch.
C13_StarExactEmpty ==
    IsSome(matched) =>
        /\ (\E i \in 1..Len(pipeline.triggers.git.branches) :
                pipeline.triggers.git.branches[i] = <<"*">>) => matched = Some(TRUE)
        /\ (Len(pipeline.triggers.git.branches) = 1 /\ ~HasChar(OnlyPattern, "*")) =>
                Unwrap(matched) = (Branch = OnlyPattern)
        /\ pipeline.triggers.git.branches = <<>> => matched = Some(FALSE)

C13_Witness ==
    /\ matched = Some(FALSE)
    /\ Len(pipeline.triggers.git.branches) = 1
    /\ ~HasChar(OnlyPattern, "*")
    /\ Len(OnlyPattern) = 2
    /\ StartsWith(Branch, OnlyPattern)


\* The exit code of a terminated process, as the operating system reports it.
ExitCodeOf(outcome) ==
    [Exit0 |-> <<0>>, Exit1 |-> <<1>>, Signal |-> <<>>][outcome]

\* C19: for a step whose process was started and terminated, the step result is
\* Success when the exit code is zero and Failed otherwise, and exit_code records the
\* code; a step result is Success only when its exit_code is present and zero.
C19_ExitCodeClassifies ==
    /\ \A j \in 1..Len(step_results) :
        proc_log[j].outcome \in ExitOutcomes =>
            /\ step_results[j].status =
                    (IF ExitCodeOf(proc_log[j].outcome) = <<0>> THEN "Success" ELSE "Failed")
            /\ step_results[j].exit_code = ExitCodeOf(proc_log[j].outcome)
    /\ \A j \in 1..Len(step_results) :
        step_results[j].status = "Success" => step_results[j].exit_code = <<0>>
    /\ Returned => \A j \in 1..Len(Record.step_results) :
        Record.step_results[j].status = "Success" => Record.step_results[j].exit_code = <<0>>

C19_Witness ==
    /\ Returned
    /\ Len(Record.step_results) = 2
    /\ proc_log[1].outcome = "Signal"
    /\ Record.step_results[1].status = "Failed"
    /\ Record.step_results[1].exit_code = None
    /\ proc_log[2].outcome = "Exit0"
    /\ Record.step_results[2].status = "Success"

\* C20: when the process of step j cannot be started, the step executor still
\* returns a result: Failed, without exit code, with the spawn error text in stderr.
\* The engine then stops with status Failed when the step has allow_failure = false
\* and goes on to the next step when it has allow_failure = true.
C20_SpawnFailureIsAFailedStep ==
    \A j \in 1..Len(proc_log) :
        proc_log[j].outcome = SpawnError =>
            /\ Len(step_results) >= j
            /\ step_results[j].status = "Failed"
            /\ step_results[j].exit_code = None
            /\ step_results[j].stderr = "Failed to execute command"
            /\ ~pipeline.steps[j].allow_failure =>
                /\ Len(step_results) = j
                /\ Len(proc_log) = j
                /\ pc \in {"break", "done"}
                /\ pipeline_status = "Failed"
                /\ Returned => Record.status = "Failed" /\ Len(Record.step_results) = j
            /\ pipeline.steps[j].allow_failure =>
                /\ pc # "break" \/ Len(step_results) > j
                /\ idx >= j
                /\ (Returned /\ j < NumSteps) => Len(Record.step_results) > j

C20_Witness ==
    /\ Returned
    /\ NumSteps = 2
    /\ Len(proc_log) = 2
    /\ proc_log[1].outcome = SpawnError
    /\ pipeline.steps[1].allow_failure
    /\ proc_log[2].outcome = SpawnError
    /\ ~pipeline.steps[2].allow_failure


-----------------------------------------------------------------------------
(* Properties of the parser *)

Parsed == Unwrap(parse_result)
Doc == Unwrap(input.doc)
WellFormed == IsSome(input.doc) /\ input.text = FileText(Doc)
ParseReturned == IsSome(parse_result)

\* The flag of the parsed triggers that the field name key stands for.
ParsedFlag(g, key) ==
    CASE key = Str.on_push -> g.on_push
      [] key = Str.on_pull_request -> g.on_pull_request
      [] key = Str.on_merge -> g.on_merge
      [] key = Str.on_tag -> g.on_tag
      [] key = Str.on_release -> g.on_release
      [] key = Str.on_branch_create -> g.on_branch_create
      [] key = Str.on_branch_delete -> g.on_branch_delete

NothingDeclared ==
    /\ WellFormed
    /\ Doc.unknown = None /\ Doc.name = None /\ Doc.version = None
    /\ Doc.triggers = Some([fields |-> <<>>, branches |-> None])
    /\ Doc.steps = <<>>

\* C14: a Pulsefile with no name, no version, an empty git block and an empty
\* steps block parses to name "default", version "1.0", no steps, all seven
\* trigger flags false and the branch patterns ["*"].
C14_MinimalPulsefileGetsDefaults ==
    (ParseReturned /\ NothingDeclared) =>
        /\ Parsed.tag = "Ok"
        /\ Parsed.value.name = <<"d", "e", "f", "a", "u", "l", "t">>
        /\ Parsed.value.version = <<"1", ".", "0">>
        /\ Parsed.value.steps = <<>>
        /\ \A key \in KnownFlags : ~ParsedFlag(Parsed.value.triggers.git, key)
        /\ Parsed.value.triggers.git.branches = <<<<"*">>>>

C14_Witness ==
    /\ ParseReturned /\ NothingDeclared
    /\ Parsed.tag = "Ok"
    /\ Parsed.value.triggers.git.branches = <<<<"*">>>>

\* C15: parsing the empty text, or a text in which the pipeline keyword does not
\* occur, returns a ParseError and no pipeline.
C15_EmptyOrKeywordlessTextFails ==
    (ParseReturned /\ (input.text = <<>> \/ Find(input.text, Kw.pipeline) = None)) =>
        /\ Parsed.tag = "Err"
        /\ Parsed.error = "ParseError"
        /\ "value" \notin DOMAIN Parsed

C15_Witness ==
    /\ ParseReturned
    /\ Len(input.text) > 1
    /\ Find(input.text, Kw.pipeline) = None
    /\ Find(input.text, Kw.triggers) # None
    /\ Parsed.tag = "Err"

\* C16: for a well-formed Pulsefile the parsed name and version are the declared
\* ones when declared, each of the seven flags is true exactly when the git block
\* declares that field with the literal true, and the branch patterns are the
\* declared branches in declaration order.
C16_DeclaredValuesAreParsed ==
    (ParseReturned /\ WellFormed) =>
        /\ Parsed.tag = "Ok"
        /\ IsSome(Doc.name) => Parsed.value.name = Unwrap(Doc.name)
        /\ IsSome(Doc.version) => Parsed.value.version = Unwrap(Doc.version)
        /\ IsSome(Doc.triggers) =>
            LET git == Unwrap(Doc.triggers)
            IN /\ \A key \in KnownFlags :
                    ParsedFlag(Parsed.value.triggers.git, key)
                        <=> \E i \in 1..Len(git.fields) :
                                git.fields[i].key = key /\ git.fields[i].value
               /\ IsSome(git.branches) =>
                    Parsed.value.triggers.git.branches = Unwrap(git.branches)

\* C17: for a well-formed Pulsefile the parsed steps are one per step block, in
\* source order, each named by the string literal of its block, with
\* allow_failure the declared boolean, or false when it is not declared.
C17_StepsInOrderWithNamesAndAllowFailure ==
    (ParseReturned /\ WellFormed) =>
        /\ Parsed.tag = "Ok"
        /\ Len(Parsed.value.steps) = Len(Doc.steps)
        /\ \A i \in 1..Len(Doc.steps) :
            /\ Parsed.value.steps[i].name = Doc.steps[i].name
            /\ Parsed.value.steps[i].allow_failure = (Doc.steps[i].allow_failure = Some(TRUE))

C17_Witness ==
    /\ ParseReturned /\ WellFormed
    /\ Len(Doc.steps) = 2
    /\ Doc.steps[1].name # Doc.steps[2].name
    /\ Doc.steps[1].allow_failure = Some(TRUE)
    /\ Doc.steps[2].allow_failure = None
    /\ Parsed.tag = "Ok"
    /\ Len(Parsed.value.steps) = 2
    /\ Parsed.value.steps[1].allow_failure
    /\ ~Parsed.value.steps[2].allow_failure

\* The input with every unknown field taken out of its blocks.
WithoutUnknownFields(src) ==
    LET d == Unwrap(src.doc)
        known == [d EXCEPT !.unknown = None,
                           !.triggers = IF IsSome(@)
                                        THEN Some([Unwrap(@) EXCEPT !.fields =
                                                SelectSeq(@, LAMBDA f : f.key \in KnownFlags)])
                                        ELSE @]
    IN [text |-> FileText(known), doc |-> Some(known)]

\* C18: a well-formed Pulsefile with unknown fields in its blocks, also ones whose
\* name contains the name of a known field, parses without error to the pipeline
\* that the same Pulsefile without those fields parses to.
C18_UnknownFieldsAreIgnored ==
    (ParseReturned /\ WellFormed) =>
        /\ Parsed.tag = "Ok"
        /\ Parsed = parse_pulsefile(WithoutUnknownFields(input))


-----------------------------------------------------------------------------
(* Properties of the engine: records, attempts and order *)

\* The positions of proc_log at which a process of step k was started.
AttemptsOf(k) == {j \in 1..Len(proc_log) : proc_log[j].step = k}

C24_NoStepsIsSuccess ==
    (Returned /\ NumSteps = 0 /\ matches(pipeline.triggers.git, git_event)) =>
        /\ Unwrap(ret).tag = "Ok"
        /\ Record.status = "Success"
        /\ Record.step_results = <<>>

C24_Witness ==
    /\ Returned
    /\ NumSteps = 0
    /\ matched = Some(TRUE)
    /\ Record.status = "Success"
    /\ Record.step_results = <<>>

\* C25: every step result, while execute runs and in the returned record, is the
\* result of a step whose process was attempted, has status Success or Failed and
\* has completed_at set; after a failure of step k with allow_failure = false the
\* record has no entry for a step after k.
C25_OnlyAttemptedStepsRecorded ==
    /\ \A i \in 1..Len(step_results) :
        /\ step_results[i].status \in {"Success", "Failed"}
        /\ IsSome(step_results[i].completed_at)
        /\ AttemptsOf(i) # {}
        /\ \A j \in AttemptsOf(i) : proc_log[j].outcome # "Running"
    /\ Returned =>
        /\ Record.step_results = step_results
        /\ \A k \in 1..NumSteps : FatalFailureAt(k) => Len(Record.step_results) <= k

C25_Witness ==
    /\ Returned
    /\ NumSteps = 2
    /\ FatalFailureAt(1)
    /\ Len(Record.step_results) = 1
    /\ Record.step_results[1].status = "Failed"
    /\ IsSome(Record.step_results[1].completed_at)

\* C26: the process of a step is started at most once; in a returned record of an
\* execution whose trigger matched, every step up to the stopping point (every step
\* when there was no early stop) was started exactly once, whatever its outcome.
C26_EachStepStartedOnce ==
    /\ \A k \in 1..NumSteps : Cardinality(AttemptsOf(k)) <= 1
    /\ (Returned /\ matched = Some(TRUE)) =>
        LET last == IF \E k \in 1..NumSteps : FatalFailureAt(k)
                    THEN Min({k \in 1..NumSteps : FatalFailureAt(k)})
                    ELSE NumSteps
        IN /\ \A k \in 1..last : Cardinality(AttemptsOf(k)) = 1
           /\ \A k \in (last + 1)..NumSteps : AttemptsOf(k) = {}

C26_Witness ==
    /\ Returned
    /\ NumSteps = 2
    /\ Len(proc_log) = 2
    /\ proc_log[1].step = 1 /\ Fails(proc_log[1].outcome)
    /\ proc_log[2].step = 2 /\ proc_log[2].outcome = "Exit0"

\* C27: steps run one after the other: at most one step process is running at any
\* time, and whenever a step process is started every earlier process has
\* terminated and the results of all earlier steps are in step_results.
C27_StepsRunSequentially ==
    /\ [](Cardinality({j \in 1..Len(proc_log) : proc_log[j].outcome = "Running"}) <= 1)
    /\ [][Len(proc_log') > Len(proc_log) =>
            /\ \A j \in 1..Len(proc_log) : proc_log[j].outcome # "Running"
            /\ Len(step_results) = Len(proc_log)
            /\ proc_log'[Len(proc_log')].step = Len(step_results) + 1]_vars

C27_Witness ==
    /\ pc = "waiting"
    /\ Len(proc_log) = 2
    /\ proc_log[1].outcome = "Exit0"
    /\ proc_log[2].outcome = "Running"
    /\ Len(step_results) = 1


-----------------------------------------------------------------------------
(* Properties of branch-pattern matching as a relation *)

Range(seq) == {seq[i] : i \in 1..Len(seq)}

\* The lists that hold the same patterns as list, in any order and any patterns
\* repeated, up to one element longer than list.
Rearrangements(list) ==
    {other \in SeqsUpTo(Range(list), Len(list) + 1) : Range(other) = Range(list)}

\* C30: the result of matches_branch for a branch is the same for every list that
\* is a permutation of the pattern list or repeats patterns of it.
C30_MatchesBranchIsAnyMatch ==
    IsSome(matched) =>
        \A other \in Rearrangements(pipeline.triggers.git.branches) :
            matches_branch([pipeline.triggers.git EXCEPT !.branches = other], Branch)
                = Unwrap(matched)

C30_Witness ==
    /\ matched = Some(TRUE)
    /\ Len(pipeline.triggers.git.branches) = 2
    /\ ~PatternMatches(pipeline.triggers.git.branches[1], Branch)
    /\ PatternMatches(pipeline.triggers.git.branches[2], Branch)
    /\ Cardinality(Rearrangements(pipeline.triggers.git.branches)) > 2


-----------------------------------------------------------------------------
(* Termination of the engine *)

\* C29: if no step process runs forever, execute eventually returns a record whose
\* status is Success, Failed or Skipped, after at most one attempt per declared
\* step; an execution that never returns waits forever for a step process.
C29_ReturnsUnlessAStepHangs ==
    ([]<>(pc # "waiting")) =>
        <>(/\ Returned
           /\ Unwrap(ret).tag = "Ok"
           /\ Record.status \in {"Success", "Failed", "Skipped"}
           /\ Len(proc_log) <= NumSteps
           /\ \A k \in 1..NumSteps : Cardinality(AttemptsOf(k)) <= 1)

C29_Witness ==
    /\ Returned
    /\ NumSteps = 2
    /\ Len(proc_log) = 2
    /\ proc_log[1].outcome = "Exit1"
    /\ proc_log[2].outcome = "Exit0"
    /\ Record.status \in {"Success", "Failed"}


-----------------------------------------------------------------------------
(* Properties of the storage *)

StoredIds == {store_log[i].id : i \in 1..Len(store_log)}
DistinctIds == \A i, j \in 1..Len(store_log) : store_log[i].id = store_log[j].id => i = j

\* C22: as long as the ids of the stored executions are pairwise distinct, whatever
\* repositories were registered and unregistered in between, get_execution gives the
\* stored record for the ids that were stored and nothing for any other id,
\* list_executions gives one record per stored id, and no call removes an execution.
C22_StoredExecutionsAreKept ==
    /\ [](DistinctIds =>
            /\ \A id \in IdTexts :
                LET uuid == Unwrap(Uuid_parse_str(id))
                IN IF id # NotAUuid /\ uuid \in StoredIds
                   THEN \E i \in 1..Len(store_log) :
                            store_log[i].id = uuid /\ get_execution(storage, id) = Some(store_log[i])
                   ELSE get_execution(storage, id) = None
            /\ \A list \in list_executions(storage) :
                /\ Len(list) = Len(store_log)
                /\ \A i \in 1..Len(store_log) :
                    Cardinality({k \in 1..Len(list) : list[k] = store_log[i]}) = 1)
    /\ [][\A uuid \in DOMAIN storage.executions :
            uuid \in DOMAIN storage'.executions]_vars

C22_Witness ==
    /\ DistinctIds
    /\ Len(store_log) = 3
    /\ store_log[1].repository # store_log[2].repository
    /\ DOMAIN storage.registered_repos = {store_log[2].repository.full_name}
    /\ get_execution(storage, Simple(store_log[3].id)) = Some(store_log[3])
    /\ Cardinality(list_executions(storage)) = 6


-----------------------------------------------------------------------------
(* Properties of a webhook request *)

\* C21: when the Pulsefile does not parse, execute_from_pulsefile returns the
\* ParseError and nothing of an execution happens, then or later: no execution id
\* is generated, no step process is started, no record is produced, and the
\* webhook handler stores no execution.
C21_ParseErrorStartsNothing ==
    (IsSome(parse_result) /\ Parsed.tag = "Err") =>
        /\ ret = Some([tag |-> "Err", error |-> "ParseError"])
        /\ uuid_count = 0
        /\ execution_id = None
        /\ matched = None
        /\ proc_log = <<>>
        /\ step_results = <<>>
        /\ store_log = <<>>
        /\ DOMAIN storage.executions = {}
        /\ list_executions(storage) = {<<>>}
        /\ http = Some("INTERNAL_SERVER_ERROR")

C21_Witness ==
    /\ IsSome(parse_result)
    /\ Parsed.tag = "Err"
    /\ Len(input.text) > 1
    /\ pc = "responded"
    /\ http = Some("INTERNAL_SERVER_ERROR")


-----------------------------------------------------------------------------
(* Properties of concurrent executions *)

\* What execute(p, event) returns when it runs alone and the process of step i
\* ends with outcomes[i]: the results from step i on, after the results so far.
RECURSIVE AloneFrom(_, _, _, _)
AloneFrom(p, outcomes, i, results) ==
    IF i > Len(p.steps) THEN [status |-> FinalStatus("Running", results), step_results |-> results]
    ELSE LET step_result == IF outcomes[i] = SpawnError
                            THEN StepResultErr(p.steps[i])
                            ELSE StepResultOk(p.steps[i], outcomes[i])
         IN IF StopsPipeline(p.steps[i], step_result)
            THEN [status |-> "Failed", step_results |-> Append(results, step_result)]
            ELSE AloneFrom(p, outcomes, i + 1, Append(results, step_result))

RunAlone(p, event, outcomes) ==
    IF ~matches(p.triggers.git, event)
    THEN [status |-> "Skipped", step_results |-> <<>>]
    ELSE AloneFrom(p, outcomes, 1, <<>>)

\* The record of the finished execution with locals c is the one of a run alone
\* with the same pipeline, event and step outcomes.
SameAsAlone(c) ==
    \E outcomes \in [1..Len(c.pipeline.steps) -> ExitOutcomes \cup {SpawnError}] :
        /\ \A j \in 1..Len(c.proc_log) : outcomes[c.proc_log[j].step] = c.proc_log[j].outcome
        /\ LET alone == RunAlone(c.pipeline, c.git_event, outcomes)
           IN /\ Unwrap(c.ret).tag = "Ok"
              /\ Unwrap(c.ret).value.status = alone.status
              /\ Unwrap(c.ret).value.step_results = alone.step_results

AllLocals == {Locals} \cup {others[k] : k \in 1..Len(others)}

\* C28: under every interleaving of the executions in progress, the status and the
\* step results of each returned record are those of the same execution run alone
\* with the same pipeline, event and step outcomes.
C28_ExecutionsAreIndependent ==
    \A c \in AllLocals : c.pc = "done" => SameAsAlone(c)

C28_Witness ==
    /\ pc = "done"
    /\ Len(others) >= 1
    /\ others[1].pc = "done"
    /\ Len(proc_log) = 2
    /\ Len(others[1].proc_log) = 1
    /\ Record.status = "Failed"
    /\ Len(Record.step_results) = 2
    /\ Unwrap(others[1].ret).value.status = "Success"
    /\ Unwrap(others[1].ret).value.id < Record.id


\* ---------------------------------------------------------------------------
\* C33: in every record returned by execute, a step result with status Failed
\* whose step has allow_failure = false is the last entry of step_results, and
\* every earlier entry is a Success or the failure of a step with
\* allow_failure = true.
C33_FatalFailureIsLast ==
    Returned =>
        LET results == Record.step_results IN
        /\ \A i \in 1..Len(results) :
              (results[i].status = "Failed" /\ ~pipeline.steps[i].allow_failure)
                  => i = Len(results)
        /\ \A i \in 1..(Len(results) - 1) :
              \/ results[i].status = "Success"
              \/ results[i].status = "Failed" /\ pipeline.steps[i].allow_failure

\* A returned record whose first entry is an allowed failure and whose last
\* entry is the failure that stopped the pipeline.
C33_Witness ==
    /\ Returned
    /\ Len(Record.step_results) = 2
    /\ Record.step_results[1].status = "Failed" /\ pipeline.steps[1].allow_failure
    /\ Record.step_results[2].status = "Failed" /\ ~pipeline.steps[2].allow_failure


\* The records of repository r among the stored ones.
StoredOf(r) == {i \in 1..Len(store_log) : store_log[i].repository.full_name = r}

Limits == 0..(MaxStores + 1)

\* C36: after store_execution calls with pairwise distinct ids, every id listed
\* under repository r is a key of the execution map whose record belongs to r,
\* every stored id is listed exactly once, and get_executions_by_repo(r, limit)
\* returns only records of r, at most limit of them, from the most recent
\* started_at to the oldest.
C36_IndexIsConsistent ==
    DistinctIds =>
        LET index == storage.executions_by_repo IN
        /\ \A r \in DOMAIN index : \A i \in 1..Len(index[r]) :
              /\ index[r][i] \in DOMAIN storage.executions
              /\ storage.executions[index[r][i]].repository.full_name = r
        /\ \A id \in StoredIds :
              Cardinality({<<r, i>> \in (DOMAIN index) \X (1..(MaxStores + 1)) :
                              i <= Len(index[r]) /\ index[r][i] = id}) = 1
        /\ \A r \in RepoIdentifiers, limit \in Limits :
              LET list == get_executions_by_repo(storage, r, limit) IN
              /\ Len(list) <= limit
              /\ \A k \in 1..Len(list) :
                    /\ list[k].repository.full_name = r
                    /\ \E i \in StoredOf(r) : store_log[i] = list[k]
              /\ \A k \in 1..(Len(list) - 1) : list[k].started_at >= list[k + 1].started_at

\* Three executions of one repository stored with start times 1, 2, 1: asked for
\* two, the query gives the one started at 2 and then the first of the other two.
C36_Witness ==
    /\ DistinctIds
    /\ Len(store_log) = 3
    /\ \A i \in 1..3 : store_log[i].repository.full_name = "test/repo"
    /\ store_log[1].started_at = 1 /\ store_log[2].started_at = 2 /\ store_log[3].started_at = 1
    /\ get_executions_by_repo(storage, "test/repo", 2) = <<store_log[2], store_log[1]>>


\* The values of the query parameter limit: absent, or a number.
LimitParams == {None} \cup {Some(n) : n \in Limits}

\* C37: the unregister handler answers 204 exactly when the repository was
\* registered and 404 otherwise, and leaves the stored executions and the
\* per-repository index as they were; the pipeline-status query answers 404 only
\* for a repository that has no stored executions and is not registered.
C37_UnregisterRemovesOnlyRegistration ==
    /\ \A r \in RepoIdentifiers :
          LET out == unregister_repo_handler(storage, r) IN
          /\ out.status = (IF is_repo_registered(storage, r) THEN "NO_CONTENT" ELSE "NOT_FOUND")
          /\ out.storage.executions = storage.executions
          /\ out.storage.executions_by_repo = storage.executions_by_repo
    /\ \A r \in RepoIdentifiers, param \in LimitParams :
          get_pipeline_status(storage, r, param).tag = "Err"
              => StoredOf(r) = {} /\ ~is_repo_registered(storage, r)


-----------------------------------------------------------------------------
(* Properties of the webhook adapter *)

\* The delivery is a pull_request, or a push whose ref is not under refs/heads/.
WithoutBranch ==
    \/ delivery.event_type = "pull_request"
    \/ /\ delivery.event_type = "push"
       /\ \/ delivery.payload.ref_field = None
          \/ ~StartsWith(Unwrap(delivery.payload.ref_field), RefsHeads)

\* The flag of the kind of event a delivery without branch is turned into.
KindFlag ==
    IF delivery.event_type = "pull_request"
    THEN pipeline.triggers.git.on_pull_request
    ELSE pipeline.triggers.git.on_push

\* C38: the event built for a pull_request delivery, or for a push delivery whose
\* ref is not under refs/heads/, carries neither a branch nor a tag; matches then
\* returns the kind flag whatever branch_patterns holds, and with the flag true
\* the pipeline is run, not skipped.
C38_NoBranchNoTagRunsOnKindFlag ==
    (WithoutBranch /\ pc # "webhook") =>
        /\ git_event.branch = None
        /\ git_event.tag = None
        /\ matched # None => Unwrap(matched) = KindFlag
        /\ (Returned /\ KindFlag) =>
              /\ Record.status # "Skipped"
              /\ Len(proc_log) = 1

\* A push of a tag to a pipeline that runs on pushes to its main branch only: the
\* step has run.
C38_Witness ==
    /\ delivery.event_type = "push"
    /\ delivery.payload.ref_field = Some(RefsTags \o <<"v">>)
    /\ pipeline.triggers.git.on_push
    /\ ~pipeline.triggers.git.on_tag
    /\ pipeline.triggers.git.branches = <<Main>>
    /\ Returned
    /\ Record.status = "Success"
    /\ Len(proc_log) = 1


-----------------------------------------------------------------------------
(* Properties of the server *)

HandlerIds == 1..Len(Handlers)
BeforeRead == {"webhook", "lock_read", "reading"}
InExecution == {"start", "loop", "waiting", "break", "done"}

C32_StoredRecordsAreImmutable ==
    /\ [](\A id \in DOMAIN storage.executions : storage.executions[id].completed_at # None)
    /\ [][DistinctIds' =>
            \A id \in DOMAIN storage.executions :
                /\ id \in DOMAIN storage'.executions
                /\ storage'.executions[id] = storage.executions[id]]_vars

\* Two records are stored, a failed one among them, and the repository is
\* registered.
C32_Witness ==
    /\ Len(store_log) = 2
    /\ \E i \in 1..2 : store_log[i].status = "Failed"
    /\ is_repo_registered(storage, TestRepo.full_name)
    /\ \A i \in 1..2 : storage.executions[store_log[i].id] = store_log[i]

\* C34: a registration whose Pulsefile does not parse is answered 400 and leaves
\* the store as it is, so every registered Pulsefile parses; the text a webhook
\* handler takes from the store parses, the handler keeps that text until it
\* answers, and 500 is answered only for a text that does not parse: a handler
\* that uses a Pulsefile from the store never answers 500, whatever register and
\* unregister requests are served in between.
C34_RegisteredPulsefilesParse ==
    /\ [](\A r \in DOMAIN storage.registered_repos :
            parse_of[storage.registered_repos[r].pulsefile].tag = "Ok")
    /\ [](\A req \in RegisterRequests :
            parse_of[req.pulsefile].tag = "Err" =>
                register_repo_handler(storage, req) = [storage |-> storage, status |-> "BAD_REQUEST"])
    /\ [][(pc = "reading" /\ pc' = "execute" /\ others' = others) =>
            parse_pulsefile(input').tag = "Ok"]_vars
    /\ [][(pc \in {"execute"} \cup InExecution /\ others' = others) => input' = input]_vars
    /\ [](\A k \in HandlerIds :
            Handlers[k].http = Some("INTERNAL_SERVER_ERROR") =>
                parse_pulsefile(Handlers[k].input).tag = "Err")

\* A handler runs the Pulsefile it took from the store after the repository was
\* unregistered, while another handler, which fetched a text that does not parse,
\* has answered 500.
C34_Witness ==
    /\ pc = "waiting"
    /\ input = ServerPulsefile
    /\ ~is_repo_registered(storage, TestRepo.full_name)
    /\ \E k \in 1..Len(others) :
        /\ others[k].http = Some("INTERNAL_SERVER_ERROR")
        /\ others[k].input = RejectedPulsefile

\* The delivery of handler h stores a record: it names a repository, its kind is
\* handled, a Pulsefile was obtained and the Pulsefile parsed.
StoresRecord(h) ==
    /\ h.delivery.payload.repository # None
    /\ h.delivery.event_type \in HandledEventTypes
    /\ h.input # NoInput
    /\ h.parse_result # None
    /\ Unwrap(h.parse_result).tag = "Ok"

\* C35: each delivery stores at most one execution record, and exactly one, be it
\* Skipped, Failed or Success, when it names a repository, is of a handled kind,
\* obtains a Pulsefile and the Pulsefile parses; a delivery without repository is
\* answered 400 and one of another kind 200, both storing nothing; and every
\* record that was stored is in the store as it was stored.
C35_OneRecordPerDelivery ==
    /\ \A k \in HandlerIds :
        LET h == Handlers[k] IN
        /\ h.delivery.writes <= 1
        /\ h.delivery.writes = 1 => StoresRecord(h)
        /\ h.locals.pc = "responded" =>
              /\ StoresRecord(h) => h.delivery.writes = 1 /\ h.http = Some("OK")
              /\ h.delivery.payload.repository = None =>
                    h.http = Some("BAD_REQUEST") /\ h.delivery.writes = 0
              /\ (h.delivery.payload.repository # None
                    /\ h.delivery.event_type \notin HandledEventTypes) =>
                    h.http = Some("OK") /\ h.delivery.writes = 0
    /\ Len(store_log) = Cardinality({k \in HandlerIds : Handlers[k].delivery.writes = 1})
    /\ Cardinality(DOMAIN storage.executions) = Len(store_log)
    /\ \A i \in 1..Len(store_log) :
        /\ store_log[i].id \in DOMAIN storage.executions
        /\ storage.executions[store_log[i].id] = store_log[i]
    /\ store_log # <<>> =>
          storage.executions_by_repo[TestRepo.full_name]
              = [i \in 1..Len(store_log) |-> store_log[i].id]

\* Two deliveries have answered, each having stored its record: one Skipped, one
\* Failed.
C35_Witness ==
    /\ pc = "responded"
    /\ \A k \in HandlerIds : Handlers[k].locals.pc = "responded" /\ Handlers[k].delivery.writes = 1
    /\ Len(store_log) >= 2
    /\ \E i, j \in 1..Len(store_log) :
        store_log[i].status = "Skipped" /\ store_log[j].status = "Failed"

====
